---- MODULE Spec2Model ----
(***************************************************************************)
(* Model of slack-dev-bot: the scheduled runs (git-summary.js and          *)
(* linear-summary.js): collection of the activity snapshot, rendering,     *)
(* the two-stage summarization pipeline and delivery.                      *)
(*                                                                         *)
(* Text is modelled as a sequence of lines (the elements the code pushes   *)
(* into `lines` before lines.join('\n')); a line is a string built by      *)
(* concatenation exactly as the template literal builds it.  Timestamps    *)
(* are JavaScript strings, modelled as sequences of one-character strings  *)
(* in a shortened ISO format: a source timestamp "<s>Z" has a precision of *)
(* one second (GitHub/Linear "....:SSZ"), the window start "<s>.<m>Z" has  *)
(* a sub-second part (Date.prototype.toISOString "....:SS.mmmZ").  The     *)
(* code compares them with the JavaScript string operators, modelled by    *)
(* StrLT on UTF-16 code units.                                             *)
(***************************************************************************)
EXTENDS Integers, Sequences, FiniteSets, TLC

(* ------------------------------ bounds --------------------------------- *)
\* records the sources return during one detailed scan (SpecCollect)
MaxRecords == 2
\* records in one page of a listing: the page lengths of the calls, scaled down
PageSize == 2
\* records the sources return during one full scheduled run (Spec)
RunRecords == 1
\* events of one kind in a snapshot handed to a renderer (SpecRender)
RenderLen == 2
\* executions of build-context.js that write context.md (SpecContext)
MaxRuns == 2
\* comments of one issue node of a Linear reply (SpecCategorize)
MaxComments == 11

(* ------------------------- JavaScript strings -------------------------- *)
NULL == "<null>"
NoTime == <<>>

CodeUnit(c) ==
  CASE c = "." -> 46
    [] c = "0" -> 48
    [] c = "1" -> 49
    [] c = "2" -> 50
    [] c = "3" -> 51
    [] c = "5" -> 53
    [] c = "Z" -> 90

DigitVal(c) == CodeUnit(c) - 48

\* the instant a timestamp string denotes, in tenths of a second
TimeOf(ts) == DigitVal(ts[1]) * 10 + (IF Len(ts) = 4 THEN DigitVal(ts[3]) ELSE 0)

RECURSIVE StrLT(_, _)
StrLT(a, b) ==
  IF a = <<>> THEN b # <<>>
  ELSE IF b = <<>> THEN FALSE
  ELSE IF Head(a) = Head(b) THEN StrLT(Tail(a), Tail(b))
  ELSE CodeUnit(Head(a)) < CodeUnit(Head(b))

\* a >= b on a possibly-null timestamp a: null >= "..." is false
JsGE(a, b) == a # NoTime /\ ~StrLT(a, b)

RECURSIVE StrOf(_)
StrOf(cs) == IF cs = <<>> THEN "" ELSE Head(cs) \o StrOf(Tail(cs))

\* x?.slice(0, 10) || '' : the date part of a timestamp
DatePart(ts) == IF ts = NoTime THEN "" ELSE StrOf(SubSeq(ts, 1, 1))

\* x || dflt for a possibly-null string
OrElse(x, dflt) == IF x = NULL \/ x = "" THEN dflt ELSE x

RECURSIVE SeqsUpTo(_, _)
SeqsUpTo(S, n) ==
  IF n = 0 THEN {<<>>}
  ELSE LET shorter == SeqsUpTo(S, n - 1)
       IN  shorter \cup {Append(s, x) : s \in {t \in shorter : Len(t) = n - 1}, x \in S}

RECURSIVE Flatten(_)
Flatten(ss) == IF ss = <<>> THEN <<>> ELSE Head(ss) \o Flatten(Tail(ss))

Range(s) == {s[i] : i \in DOMAIN s}

(* ------------------------- what the sources hold ----------------------- *)
T0 == <<"0", "Z">>
T1 == <<"1", "Z">>
T2 == <<"2", "Z">>

SinceValues == {<<"1", ".", "0", "Z">>, <<"1", ".", "5", "Z">>}

OrgRepoListings == {<<>>, <<"api">>, <<"api", "web">>}
ExtraRepoConfigs == {<<>>, << <<"ext", "api">> >>}
BranchListings == {<<>>, <<"main">>, <<"main", "dev">>}

\* one TSV line of the commits listing: sha, author, first message line
\* (date is the commit time, which the jq filter does not extract)
CommitPool ==
  { [sha |-> "s1", author |-> "alice", message |-> "fix", date |-> T2],
    [sha |-> "s2", author |-> "bob", message |-> "add", date |-> T0],
    [sha |-> "", author |-> "bob", message |-> "x", date |-> T2] }

ReviewNew == [author |-> "bob", state |-> "APPROVED", submittedAt |-> T2]
ReviewOld == [author |-> NULL, state |-> "COMMENTED", submittedAt |-> T0]
ReviewPending == [author |-> "bob", state |-> "PENDING", submittedAt |-> T2]

PrPool ==
  { [number |-> "7", title |-> "feat", author |-> "alice", state |-> "OPEN",
     createdAt |-> T2, mergedAt |-> NoTime, closedAt |-> NoTime, updatedAt |-> T2,
     reviews |-> <<ReviewPending>>],
    [number |-> "8", title |-> "old", author |-> NULL, state |-> "OPEN",
     createdAt |-> T0, mergedAt |-> NoTime, closedAt |-> NoTime, updatedAt |-> T2,
     reviews |-> <<ReviewNew>>],
    [number |-> "9", title |-> "done", author |-> "bob", state |-> "MERGED",
     createdAt |-> T0, mergedAt |-> T1, closedAt |-> T1, updatedAt |-> T2,
     reviews |-> <<ReviewOld, ReviewNew>>] }

\* records of repos/<r>/issues/comments (num: the number ending issue_url)
IssueCommentPool ==
  { [user |-> "bob", num |-> "7", body |-> "lgtm", created_at |-> T2],
    [user |-> NULL, num |-> NULL, body |-> "ping", created_at |-> T0] }

\* records of repos/<r>/pulls/comments (num: the number ending pull_request_url)
ReviewCommentPool ==
  { [user |-> "bob", num |-> "7", body |-> "nit", created_at |-> T2],
    [user |-> "alice", num |-> "7", body |-> "why", created_at |-> T2] }

IssuePool ==
  { [number |-> "3", title |-> "bug", user |-> "alice", state |-> "open",
     created_at |-> T2, html_url |-> "u/issues/3", pull_request |-> FALSE],
    [number |-> "7", title |-> "feat", user |-> "alice", state |-> "open",
     created_at |-> T2, html_url |-> "u/pull/7", pull_request |-> TRUE],
    [number |-> "2", title |-> "stale", user |-> NULL, state |-> "closed",
     created_at |-> T0, html_url |-> "u/issues/2", pull_request |-> FALSE] }

ReleasePool ==
  { [tag_name |-> "v2", name |-> NULL, author |-> "alice", published_at |-> T2, html_url |-> "u/v2"],
    [tag_name |-> "v1", name |-> "one", author |-> "bob", published_at |-> T0, html_url |-> "u/v1"],
    [tag_name |-> "v3", name |-> "draft", author |-> NULL, published_at |-> NoTime, html_url |-> "u/v3"] }

OrgEventPool ==
  { [type |-> "CreateEvent", ref_type |-> "branch", ref |-> "dev", repo |-> <<"org", "api">>,
     actor |-> "alice", member |-> NULL, action |-> NULL, created_at |-> T2],
    [type |-> "DeleteEvent", ref_type |-> "branch", ref |-> "tmp", repo |-> <<"org", "web">>,
     actor |-> "bob", member |-> NULL, action |-> NULL, created_at |-> T1],
    [type |-> "CreateEvent", ref_type |-> "tag", ref |-> "v2", repo |-> <<"org", "api">>,
     actor |-> "alice", member |-> NULL, action |-> NULL, created_at |-> T2],
    [type |-> "MemberEvent", ref_type |-> NULL, ref |-> NULL, repo |-> <<"org", "api">>,
     actor |-> "alice", member |-> "carol", action |-> NULL, created_at |-> T0] }

(* ------------------------------- state --------------------------------- *)
VARIABLES
  pc,          \* position of the run
  since,       \* window start, computed once per run
  extraRepos,  \* CONFIG.extraRepos
  allRepos,    \* repositories to scan
  ri,          \* index of the repository being scanned
  branches,    \* branches of the repository being scanned
  bi,          \* index of the branch whose commits are listed next
  seenSHAs,    \* SHAs already collected
  data,        \* the snapshot under construction
  quota,       \* records the sources may still return (bound)
  listed,      \* every raw record a listing returned so far
  failed,      \* the listings whose gh call failed
  missed,      \* records the origin holds beyond the page a listing returned
  script,      \* which scheduled run: "git" (git-summary.js) or "linear" (linear-summary.js)
  dryRun,      \* --dry-run
  webhookOk,   \* the webhook URL of the run is configured (not empty)
  placeholder, \* the webhook URL still holds the XXXXX of the template
  hasKey,      \* OPENROUTER_API_KEY is set
  linearCfg,   \* "ok", or which of LINEAR_API_KEY / linearTeamId is missing
  linearData,  \* what fetchLinearActivity returned
  rawData,     \* the rendered text
  structuredData,
  isPreprocessed,
  stage1,      \* the structuring call: "none", "pending", "resolved", "skipped"
  stage1Reply, \* what the structuring endpoint answered
  stage2,      \* the formatting call: "none", "running", "resolved"
  llmReply,    \* how the formatting command ended
  prompt,      \* the prompt piped to the formatting command
  summary,
  posts,       \* delivery POSTs issued
  postReply,   \* what the webhook answered
  exitCode,    \* -1 while the process runs
  output,      \* what the run wrote to its output, line by line
  lastSummary,    \* bot cache: summary of the last collection
  lastRawData,    \* bot cache: raw data section of the last collection
  lastLinearData, \* bot cache: rendered Linear activity
  bpc,         \* bot: position of the startup routine (0) and of each mention's handler
  question,    \* bot: event.text of each mention without the <@...> tokens, trimmed
  botPrompt,   \* bot: the prompt each handler piped to the LLM command
  answer,      \* bot: what askLLM returned to each handler
  fetching,    \* bot: the callers whose Linear fetch is outstanding
  blocked,     \* bot: the caller whose execSync holds the event loop, or NoProc
  botLog,      \* bot: the lines the latest step of the bot wrote to its console
  eyes,        \* bot: what became of the eyes reaction of each mention
  contextFile,    \* build-context: the content of context.md on disk
  notionCfg,      \* build-context: NOTION_API_KEY and notionDatabaseId are set
  generatedParts, \* build-context: the generated section under construction
  writes       \* build-context: calls of fs.writeFileSync

collectVars == <<since, extraRepos, allRepos, ri, branches, bi, seenSHAs, data, quota, listed,
                 failed, missed>>

configVars == <<script, dryRun, webhookOk, placeholder, hasKey, linearCfg>>

pipeVars == <<rawData, structuredData, isPreprocessed, stage1, stage1Reply, stage2,
              llmReply, prompt, summary, posts, postReply>>

botVars == <<lastSummary, lastRawData, lastLinearData, bpc, question, botPrompt, answer,
             fetching, blocked, botLog, eyes>>

ctxVars == <<contextFile, notionCfg, generatedParts, writes>>

runVars == <<configVars, botVars, ctxVars, linearData, pipeVars, exitCode, output>>

vars == <<pc, collectVars, runVars>>

EmptyData ==
  [commits |-> <<>>, prs |-> <<>>, reviews |-> <<>>, comments |-> <<>>,
   issues |-> <<>>, releases |-> <<>>, branchEvents |-> <<>>, memberEvents |-> <<>>]

Org == "org"

\* a repository is the list of the segments of its full name
FullName(r) == r[1] \o "/" \o r[2]

\* fullRepo.split('/').pop()
RepoName(r) == r[Len(r)]

\* `${org}/${r}` for a listed repository name
OrgRepo(name) == <<Org, name>>

CommitUrl(r, sha) == "https://github.com/" \o FullName(r) \o "/commit/" \o sha

Listed(kind, r, listing, recs) ==
  {[kind |-> kind, repo |-> r, listing |-> listing, rec |-> recs[i]] : i \in DOMAIN recs}

(* -------------------- collectGitData, step by step --------------------- *)
\* 1. commits of one branch listing, deduplicated by SHA
CommitRecord(r, branch, line) ==
  [repo |-> RepoName(r), fullRepo |-> FullName(r), author |-> line.author,
   branch |-> branch, message |-> line.message, url |-> CommitUrl(r, line.sha)]

\* the scan without the seenSHAs test
SkipCommitLineNoSeen(line, seen) == line.sha = ""

SkipCommitLine(line, seen) == line.sha = "" \/ line.sha \in seen

\* a scan that records the SHAs and keeps every line
ScanCommitsAll(lines, r, branch, seen, acc) ==
  [seen |-> seen \cup ({lines[i].sha : i \in DOMAIN lines} \ {""}),
   commits |-> acc \o [i \in DOMAIN lines |-> CommitRecord(r, branch, lines[i])]]

RECURSIVE ScanCommits(_, _, _, _, _)
ScanCommits(lines, r, branch, seen, acc) ==
  IF lines = <<>> THEN [seen |-> seen, commits |-> acc]
  ELSE LET line == Head(lines) IN
       IF SkipCommitLine(line, seen)
       THEN ScanCommits(Tail(lines), r, branch, seen, acc)
       ELSE ScanCommits(Tail(lines), r, branch, seen \cup {line.sha},
                        Append(acc, CommitRecord(r, branch, line)))

\* 2. pull requests touched in the window, with their reviews
PrInWindow(pr, s) ==
  \/ JsGE(pr.createdAt, s)
  \/ (pr.mergedAt # NoTime /\ JsGE(pr.mergedAt, s))
  \/ (pr.closedAt # NoTime /\ JsGE(pr.closedAt, s))

PrRecord(r, pr) ==
  [repo |-> RepoName(r), fullRepo |-> FullName(r), number |-> pr.number,
   title |-> pr.title, author |-> OrElse(pr.author, "unknown"), state |-> pr.state,
   createdAt |-> DatePart(pr.createdAt), mergedAt |-> DatePart(pr.mergedAt),
   closedAt |-> DatePart(pr.closedAt),
   url |-> "https://github.com/" \o FullName(r) \o "/pull/" \o pr.number]

ReviewInWindow(review, s) == JsGE(review.submittedAt, s) /\ review.state # "PENDING"

ReviewRecord(r, pr, review) ==
  [repo |-> RepoName(r), prNumber |-> pr.number, prTitle |-> pr.title,
   reviewer |-> OrElse(review.author, "unknown"), state |-> review.state]

ReviewsOfPr(r, pr, s) ==
  LET kept == SelectSeq(pr.reviews, LAMBDA rv : ReviewInWindow(rv, s))
  IN  [i \in DOMAIN kept |-> ReviewRecord(r, pr, kept[i])]

PrRecords(r, prs, s) ==
  LET kept == SelectSeq(prs, LAMBDA pr : PrInWindow(pr, s))
  IN  [i \in DOMAIN kept |-> PrRecord(r, kept[i])]

ReviewRecords(r, prs, s) ==
  LET kept == SelectSeq(prs, LAMBDA pr : PrInWindow(pr, s))
  IN  Flatten([i \in DOMAIN kept |-> ReviewsOfPr(r, kept[i], s)])

\* 3./4. issue comments and pull-request review comments
CommentRecord(r, c, isReviewComment) ==
  [repo |-> RepoName(r), author |-> OrElse(c.user, "unknown"),
   issueNumber |-> OrElse(c.num, "?"), body |-> c.body,
   createdAt |-> c.created_at, isReviewComment |-> isReviewComment]

\* 5. issues, without the pull requests the issues listing also returns
IssueRecord(r, issue) ==
  [repo |-> RepoName(r), number |-> issue.number, title |-> issue.title,
   author |-> OrElse(issue.user, "unknown"), state |-> issue.state,
   createdAt |-> DatePart(issue.created_at), url |-> issue.html_url]

\* 6. releases published in the window
ReleaseInWindow(rel, s) == JsGE(rel.published_at, s)

ReleaseRecord(r, rel) ==
  [repo |-> RepoName(r), tag |-> rel.tag_name, name |-> OrElse(rel.name, rel.tag_name),
   author |-> OrElse(rel.author, "unknown"), publishedAt |-> DatePart(rel.published_at),
   url |-> rel.html_url]

\* 7. organisation events
\* ev.repo.name.replace(`${org}/`, '')
EventRepoName(r) == IF r[1] = Org THEN r[2] ELSE FullName(r)

EventSkipped(ev, s) == StrLT(ev.created_at, s)

IsBranchEvent(ev) == ev.type \in {"CreateEvent", "DeleteEvent"} /\ ev.ref_type = "branch"

BranchEventRecord(ev) ==
  [repo |-> EventRepoName(ev.repo), author |-> OrElse(ev.actor, "unknown"),
   action |-> IF ev.type = "CreateEvent" THEN "created" ELSE "deleted",
   branch |-> ev.ref]

MemberEventRecord(ev) ==
  [repo |-> EventRepoName(ev.repo), member |-> OrElse(ev.member, "unknown"),
   action |-> OrElse(ev.action, "added"), actor |-> OrElse(ev.actor, "unknown")]

\* a key that also tells the two listings apart
CommentKeyPerListing(c) ==
  c.repo \o ":" \o c.author \o ":" \o c.issueNumber \o ":" \o StrOf(c.createdAt)
    \o (IF c.isReviewComment THEN ":review" ELSE ":issue")

\* the deduplication key of a comment
CommentKey(c) ==
  c.repo \o ":" \o c.author \o ":" \o c.issueNumber \o ":" \o StrOf(c.createdAt)

\* a filter that keeps the last record of each key
DedupCommentsLast(cs, keys, acc) ==
  LET kept == {i \in DOMAIN cs : \A j \in DOMAIN cs : j > i => CommentKey(cs[j]) # CommentKey(cs[i])}
  IN  acc \o [k \in 1..Cardinality(kept) |->
                cs[CHOOSE i \in kept : Cardinality({j \in kept : j <= i}) = k]]

RECURSIVE DedupComments(_, _, _)
DedupComments(cs, keys, acc) ==
  IF cs = <<>> THEN acc
  ELSE LET key == CommentKey(Head(cs)) IN
       IF key \in keys THEN DedupComments(Tail(cs), keys, acc)
       ELSE DedupComments(Tail(cs), keys \cup {key}, Append(acc, Head(cs)))

AfterRepo == IF ri + 1 > Len(allRepos) THEN "events" ELSE "branches"

\* what one `gh` call can end with: its output, or a failed execSync
\* (non-zero exit, timeout); a failure takes one unit of the bound
GhFailure == [ok |-> FALSE, recs |-> <<>>]

\* the most records one call without --paginate returns (per_page=100,
\* --limit 50, per_page=10, first: 100), scaled down
FirstPage == IF quota < PageSize THEN quota ELSE PageSize

\* what the origin holds after a full page: nothing, or one more record
Beyond(reply, pool) ==
  IF reply.ok /\ Len(reply.recs) = PageSize
  THEN {<<>>} \cup {<<x>> : x \in pool \ Range(reply.recs)}
  ELSE {<<>>}

GhReplies(results) ==
  {[ok |-> TRUE, recs |-> x] : x \in results} \cup (IF quota > 0 THEN {GhFailure} ELSE {})

\* gh: the output of the call, '' from the catch. ghJSON turns '' into
\* null, which every caller skips as it skips an empty list.
gh(reply) == IF reply.ok THEN reply.recs ELSE <<>>

\* what a gh call writes to the output: nothing, the catch included
GhLog(reply) == <<>>

Cost(reply) == IF reply.ok THEN Len(reply.recs) ELSE 1

Failed(reply, r, listing) ==
  IF reply.ok THEN failed ELSE failed \cup {[repo |-> r, listing |-> listing]}

CollectedLine(d) ==
  "Collected: " \o ToString(Len(d.commits)) \o " commits, "
    \o ToString(Len(d.prs)) \o " PRs, "
    \o ToString(Len(d.reviews)) \o " reviews, "
    \o ToString(Len(d.comments)) \o " comments, "
    \o ToString(Len(d.issues)) \o " issues, "
    \o ToString(Len(d.releases)) \o " releases, "
    \o ToString(Len(d.branchEvents)) \o " branch events, "
    \o ToString(Len(d.memberEvents)) \o " membership changes"

\* the variables of the run that no step of collectGitData changes
scanFixed == <<configVars, botVars, ctxVars, linearData, pipeVars, exitCode>>

ListRepos ==
  /\ pc = "repos"
  /\ \E reply \in GhReplies(OrgRepoListings) :
       LET names == gh(reply)
           repos == [i \in DOMAIN names |-> OrgRepo(names[i])] \o extraRepos
       IN  /\ allRepos' = repos
           /\ pc' = IF Len(repos) = 0 THEN "events" ELSE "branches"
           /\ quota' = IF reply.ok THEN quota ELSE quota - 1
           /\ failed' = Failed(reply, <<Org>>, "repos")
           /\ output' = output \o GhLog(reply)
                          \o <<"Found " \o ToString(Len(repos)) \o " repos to scan">>
  /\ ri' = 1
  /\ data' = EmptyData
  /\ seenSHAs' = {}
  /\ UNCHANGED <<since, extraRepos, branches, bi, listed, missed>>
  /\ UNCHANGED scanFixed

\* a branch listing after which an empty repository still has its pull
\* requests and the later listings fetched
ListBranchesNoSkip ==
  /\ pc = "branches"
  /\ \E reply \in GhReplies(BranchListings) :
       LET bs == gh(reply)
           r == allRepos[ri]
       IN  /\ IF bs = <<>>
              THEN /\ pc' = "prs"
                   /\ UNCHANGED <<branches, bi>>
                   /\ output' = output \o <<"Scanning " \o FullName(r) \o "...">> \o GhLog(reply)
                                  \o <<"  No branches in " \o FullName(r) \o ", skipping">>
              ELSE /\ branches' = bs
                   /\ bi' = 1
                   /\ pc' = "commits"
                   /\ output' = Append(output, "Scanning " \o FullName(r) \o "...")
           /\ ri' = ri
           /\ quota' = IF reply.ok THEN quota ELSE quota - 1
           /\ failed' = Failed(reply, r, "branches")
  /\ UNCHANGED <<since, extraRepos, allRepos, seenSHAs, data, listed, missed>>
  /\ UNCHANGED scanFixed

ListBranches ==
  /\ pc = "branches"
  /\ \E reply \in GhReplies(BranchListings) :
       LET bs == gh(reply)
           r == allRepos[ri]
       IN  /\ IF bs = <<>>
              THEN /\ ri' = ri + 1
                   /\ pc' = AfterRepo
                   /\ UNCHANGED <<branches, bi>>
                   /\ output' = output \o <<"Scanning " \o FullName(r) \o "...">> \o GhLog(reply)
                                  \o <<"  No branches in " \o FullName(r) \o ", skipping">>
              ELSE /\ branches' = bs
                   /\ bi' = 1
                   /\ pc' = "commits"
                   /\ ri' = ri
                   /\ output' = Append(output, "Scanning " \o FullName(r) \o "...")
           /\ quota' = IF reply.ok THEN quota ELSE quota - 1
           /\ failed' = Failed(reply, r, "branches")
  /\ UNCHANGED <<since, extraRepos, allRepos, seenSHAs, data, listed, missed>>
  /\ UNCHANGED scanFixed

ListCommits ==
  /\ pc = "commits"
  /\ \E reply \in GhReplies(SeqsUpTo(CommitPool, FirstPage)) :
       LET r == allRepos[ri]
           lines == gh(reply)
           scan == ScanCommits(lines, r, branches[bi], seenSHAs, data.commits)
       IN  /\ seenSHAs' = scan.seen
           /\ data' = [data EXCEPT !.commits = scan.commits]
           /\ quota' = quota - Cost(reply)
           /\ listed' = listed \cup Listed("commit", r, branches[bi], lines)
           /\ \E more \in Beyond(reply, CommitPool) :
                missed' = missed \cup Listed("commit", r, branches[bi], more)
           /\ failed' = Failed(reply, r, "commits")
           /\ output' = output \o GhLog(reply)
  /\ bi' = bi + 1
  /\ pc' = IF bi = Len(branches) THEN "prs" ELSE "commits"
  /\ UNCHANGED <<since, extraRepos, allRepos, ri, branches>>
  /\ UNCHANGED scanFixed

ListPRs ==
  /\ pc = "prs"
  /\ \E reply \in GhReplies(SeqsUpTo(PrPool, FirstPage)) :
       LET r == allRepos[ri]
           prs == gh(reply)
       IN  /\ data' = [data EXCEPT !.prs = @ \o PrRecords(r, prs, since),
                                   !.reviews = @ \o ReviewRecords(r, prs, since)]
           /\ quota' = quota - Cost(reply)
           /\ listed' = listed \cup Listed("pr", r, "prs", prs)
           /\ \E more \in Beyond(reply, PrPool) :
                missed' = missed \cup Listed("pr", r, "prs", more)
           /\ failed' = Failed(reply, r, "prs")
           /\ output' = output \o GhLog(reply)
  /\ pc' = "comments"
  /\ UNCHANGED <<since, extraRepos, allRepos, ri, branches, bi, seenSHAs>>
  /\ UNCHANGED scanFixed

ListIssueComments ==
  /\ pc = "comments"
  /\ \E reply \in GhReplies(SeqsUpTo(IssueCommentPool, FirstPage)) :
       LET r == allRepos[ri]
           cs == gh(reply)
       IN  /\ data' = [data EXCEPT !.comments =
                         @ \o [i \in DOMAIN cs |-> CommentRecord(r, cs[i], FALSE)]]
           /\ quota' = quota - Cost(reply)
           /\ listed' = listed \cup Listed("comment", r, "issues/comments", cs)
           /\ \E more \in Beyond(reply, IssueCommentPool) :
                missed' = missed \cup Listed("comment", r, "issues/comments", more)
           /\ failed' = Failed(reply, r, "issues/comments")
           /\ output' = output \o GhLog(reply)
  /\ pc' = "reviewComments"
  /\ UNCHANGED <<since, extraRepos, allRepos, ri, branches, bi, seenSHAs>>
  /\ UNCHANGED scanFixed

ListReviewComments ==
  /\ pc = "reviewComments"
  /\ \E reply \in GhReplies(SeqsUpTo(ReviewCommentPool, FirstPage)) :
       LET r == allRepos[ri]
           cs == gh(reply)
       IN  /\ data' = [data EXCEPT !.comments =
                         @ \o [i \in DOMAIN cs |-> CommentRecord(r, cs[i], TRUE)]]
           /\ quota' = quota - Cost(reply)
           /\ listed' = listed \cup Listed("comment", r, "pulls/comments", cs)
           /\ \E more \in Beyond(reply, ReviewCommentPool) :
                missed' = missed \cup Listed("comment", r, "pulls/comments", more)
           /\ failed' = Failed(reply, r, "pulls/comments")
           /\ output' = output \o GhLog(reply)
  /\ pc' = "issues"
  /\ UNCHANGED <<since, extraRepos, allRepos, ri, branches, bi, seenSHAs>>
  /\ UNCHANGED scanFixed

ListIssues ==
  /\ pc = "issues"
  /\ \E reply \in GhReplies(SeqsUpTo(IssuePool, FirstPage)) :
       LET r == allRepos[ri]
           is == gh(reply)
           kept == SelectSeq(is, LAMBDA issue : ~issue.pull_request)
       IN  /\ data' = [data EXCEPT !.issues =
                         @ \o [i \in DOMAIN kept |-> IssueRecord(r, kept[i])]]
           /\ quota' = quota - Cost(reply)
           /\ listed' = listed \cup Listed("issue", r, "issues", is)
           /\ \E more \in Beyond(reply, IssuePool) :
                missed' = missed \cup Listed("issue", r, "issues", more)
           /\ failed' = Failed(reply, r, "issues")
           /\ output' = output \o GhLog(reply)
  /\ pc' = "releases"
  /\ UNCHANGED <<since, extraRepos, allRepos, ri, branches, bi, seenSHAs>>
  /\ UNCHANGED scanFixed

ListReleases ==
  /\ pc = "releases"
  /\ \E reply \in GhReplies(SeqsUpTo(ReleasePool, FirstPage)) :
       LET r == allRepos[ri]
           rels == gh(reply)
           kept == SelectSeq(rels, LAMBDA rel : ReleaseInWindow(rel, since))
       IN  /\ data' = [data EXCEPT !.releases =
                         @ \o [i \in DOMAIN kept |-> ReleaseRecord(r, kept[i])]]
           /\ quota' = quota - Cost(reply)
           /\ listed' = listed \cup Listed("release", r, "releases", rels)
           /\ \E more \in Beyond(reply, ReleasePool) :
                missed' = missed \cup Listed("release", r, "releases", more)
           /\ failed' = Failed(reply, r, "releases")
           /\ output' = output \o GhLog(reply)
  /\ ri' = ri + 1
  /\ pc' = AfterRepo
  /\ UNCHANGED <<since, extraRepos, allRepos, branches, bi, seenSHAs>>
  /\ UNCHANGED scanFixed

\* the organisation events, then the comment deduplication and the return
ListOrgEvents ==
  /\ pc = "events"
  /\ \E reply \in GhReplies(SeqsUpTo(OrgEventPool, FirstPage)) :
       LET evs == gh(reply)
           inWin == SelectSeq(evs, LAMBDA ev : ~EventSkipped(ev, since))
           bes == SelectSeq(inWin, IsBranchEvent)
           mes == SelectSeq(inWin, LAMBDA ev : ~IsBranchEvent(ev) /\ ev.type = "MemberEvent")
       IN  /\ data' = [data EXCEPT
                         !.branchEvents = @ \o [i \in DOMAIN bes |-> BranchEventRecord(bes[i])],
                         !.memberEvents = @ \o [i \in DOMAIN mes |-> MemberEventRecord(mes[i])],
                         !.comments = DedupComments(@, {}, <<>>)]
           /\ quota' = quota - Cost(reply)
           /\ listed' = listed \cup Listed("event", <<Org>>, "events", evs)
           /\ \E more \in Beyond(reply, OrgEventPool) :
                missed' = missed \cup Listed("event", <<Org>>, "events", more)
           /\ failed' = Failed(reply, <<Org>>, "events")
           /\ output' = output \o <<"Fetching org events...">> \o GhLog(reply)
                          \o <<CollectedLine(data')>>
  /\ pc' = "collected"
  /\ UNCHANGED <<since, extraRepos, allRepos, ri, branches, bi, seenSHAs>>
  /\ UNCHANGED scanFixed

collectGitData ==
  \/ ListRepos
  \/ ListBranches
  \/ ListCommits
  \/ ListPRs
  \/ ListIssueComments
  \/ ListReviewComments
  \/ ListIssues
  \/ ListReleases
  \/ ListOrgEvents

(* ------------------------------ rendering ------------------------------ *)
\* CONFIG.authorMap
authorMap == [alice |-> "Alice"]

\* n(author) in formatRawData: authorMap[author] || author
n(author) == IF author \in DOMAIN authorMap THEN OrElse(authorMap[author], author) ELSE author

CommitLine(c) ==
  "[" \o c.repo \o "] " \o n(c.author) \o " (" \o c.branch \o "): " \o c.message \o " | " \o c.url

PrStatus(pr) ==
  IF pr.mergedAt # "" THEN "MERGED " \o pr.mergedAt
  ELSE IF pr.closedAt # "" THEN "CLOSED " \o pr.closedAt
  ELSE pr.state

PrLine(pr) ==
  "[" \o pr.repo \o "] [" \o PrStatus(pr) \o "] #" \o pr.number \o " " \o pr.title
    \o " by " \o n(pr.author) \o " | created:" \o pr.createdAt \o " | " \o pr.url

ReviewLine(r) ==
  "[" \o r.repo \o "] PR #" \o r.prNumber \o ": " \o n(r.reviewer) \o " -> " \o r.state

CommentLine(c) ==
  "[" \o c.repo \o "] " \o n(c.author) \o " "
    \o (IF c.isReviewComment THEN "code review on" ELSE "commented on")
    \o " #" \o c.issueNumber \o ": " \o c.body

IssueLine(i) ==
  "[" \o i.repo \o "] [" \o i.state \o "] #" \o i.number \o " " \o i.title \o " by " \o n(i.author)
    \o " | " \o i.url

ReleaseLine(r) ==
  "[" \o r.repo \o "] " \o r.tag \o " \"" \o r.name \o "\" by " \o n(r.author) \o " | " \o r.publishedAt
    \o " | " \o r.url

BranchEventLine(b) ==
  "[" \o b.repo \o "] " \o n(b.author) \o " " \o b.action \o " branch: " \o b.branch

MemberEventLine(m) ==
  "[" \o m.repo \o "] " \o n(m.member) \o " was " \o m.action \o " by " \o n(m.actor)

\* a section that pushes its header whatever the kind holds
SectionAlways(header, lines) == <<header>> \o lines

\* one labelled section, omitted when the kind is empty
Section(header, lines) == IF Len(lines) > 0 THEN <<header>> \o lines ELSE <<>>

formatRawData(d) ==
  Section("COMMITS:", [i \in DOMAIN d.commits |-> CommitLine(d.commits[i])])
    \o Section("\nPULL REQUESTS:", [i \in DOMAIN d.prs |-> PrLine(d.prs[i])])
    \o Section("\nPR REVIEWS:", [i \in DOMAIN d.reviews |-> ReviewLine(d.reviews[i])])
    \o Section("\nCOMMENTS:", [i \in DOMAIN d.comments |-> CommentLine(d.comments[i])])
    \o Section("\nISSUES:", [i \in DOMAIN d.issues |-> IssueLine(d.issues[i])])
    \o Section("\nRELEASES:", [i \in DOMAIN d.releases |-> ReleaseLine(d.releases[i])])
    \o Section("\nBRANCH EVENTS:", [i \in DOMAIN d.branchEvents |-> BranchEventLine(d.branchEvents[i])])
    \o Section("\nMEMBERSHIP CHANGES:", [i \in DOMAIN d.memberEvents |-> MemberEventLine(d.memberEvents[i])])

totalActivity(d) ==
  Len(d.commits) + Len(d.prs) + Len(d.reviews) + Len(d.comments) + Len(d.issues)
    + Len(d.releases) + Len(d.branchEvents) + Len(d.memberEvents)

(* ------------------------------- Linear -------------------------------- *)
\* Linear names are strings whose characters matter (substring lookup):
\* sequences of one-character strings
NameBob == <<"B", "o", "b">>
NameBobby == <<"b", "o", "b", "b", "y">>
NameAnn == <<"A", "n", "n">>
NoName == <<>>

\* CONFIG.linearAuthorMap, in Object.entries order
linearAuthorMap == << [key |-> <<"b", "o", "b">>, val |-> "Robert"] >>

LowerChar(c) == CASE c = "A" -> "a" [] c = "B" -> "b" [] OTHER -> c

toLowerCase(str) == [i \in DOMAIN str |-> LowerChar(str[i])]

\* hay.includes(needle)
includes(hay, needle) ==
  \E i \in 0..(Len(hay) - Len(needle)) : SubSeq(hay, i + 1, i + Len(needle)) = needle

RECURSIVE mapNameFrom(_, _)
mapNameFrom(entries, name) ==
  IF entries = <<>> THEN StrOf(name)
  ELSE LET key == toLowerCase(Head(entries).key)
           low == toLowerCase(name)
       IN  IF includes(low, key) \/ includes(key, low) THEN Head(entries).val
           ELSE mapNameFrom(Tail(entries), name)

mapName(name) == IF name = NoName THEN "Unassigned" ELSE mapNameFrom(linearAuthorMap, name)

LinearCommentsA == << [body |-> <<"o", "k">>, createdAt |-> T2, displayName |-> NoName, name |-> NameBobby] >>

\* the issue nodes the GraphQL query can return
LinearIssuePool ==
  { [identifier |-> "ENG-1", title |-> "new", state |-> "Todo", assignee |-> NameBob,
     priorityLabel |-> "High", createdAt |-> T2, comments |-> <<>>],
    [identifier |-> "ENG-2", title |-> "old", state |-> "Done", assignee |-> NoName,
     priorityLabel |-> "Low", createdAt |-> T0, comments |-> LinearCommentsA],
    [identifier |-> "ENG-3", title |-> "edge", state |-> "Todo", assignee |-> NameAnn,
     priorityLabel |-> "Low", createdAt |-> T1, comments |-> <<>>] }

BodyCap == 500
CommentCap == 20

CapBody(body) == IF Len(body) > BodyCap THEN SubSeq(body, 1, BodyCap) \o <<"...">> ELSE body

LinearComment(issue, comment) ==
  [issue |-> issue.identifier, issueTitle |-> issue.title,
   author |-> IF comment.displayName # NoName THEN comment.displayName
              ELSE IF comment.name # NoName THEN comment.name
              ELSE <<"U", "n", "k", "n", "o", "w", "n">>,
   body |-> CapBody(comment.body), createdAt |-> comment.createdAt]

\* stable insertion by descending creation time
RECURSIVE InsertDesc(_, _)
InsertDesc(sorted, c) ==
  IF sorted = <<>> THEN <<c>>
  ELSE IF TimeOf(Head(sorted).createdAt) >= TimeOf(c.createdAt)
       THEN <<Head(sorted)>> \o InsertDesc(Tail(sorted), c)
       ELSE <<c>> \o sorted

RECURSIVE SortDesc(_, _)
SortDesc(cs, acc) == IF cs = <<>> THEN acc ELSE SortDesc(Tail(cs), InsertDesc(acc, Head(cs)))

\* a categorisation that keeps the first comments in arrival order
CategorizeUnsorted(issues, s) ==
  LET all == Flatten([i \in DOMAIN issues |->
                 [j \in DOMAIN issues[i].comments |-> LinearComment(issues[i], issues[i].comments[j])]])
  IN  [newIssues |-> SelectSeq(issues, LAMBDA issue : TimeOf(issue.createdAt) >= TimeOf(s)),
       activeIssues |-> SelectSeq(issues, LAMBDA issue : ~(TimeOf(issue.createdAt) >= TimeOf(s))),
       recentComments |-> SubSeq(all, 1, IF Len(all) > CommentCap THEN CommentCap ELSE Len(all))]

\* the categorisation of fetchLinearActivity, applied to the returned nodes
Categorize(issues, s) ==
  LET all == Flatten([i \in DOMAIN issues |->
                 [j \in DOMAIN issues[i].comments |-> LinearComment(issues[i], issues[i].comments[j])]])
      sorted == SortDesc(all, <<>>)
  IN  [newIssues |-> SelectSeq(issues, LAMBDA issue : TimeOf(issue.createdAt) >= TimeOf(s)),
       activeIssues |-> SelectSeq(issues, LAMBDA issue : ~(TimeOf(issue.createdAt) >= TimeOf(s))),
       recentComments |-> SubSeq(sorted, 1, IF Len(sorted) > CommentCap THEN CommentCap ELSE Len(sorted))]

LinearIssueLine(issue) ==
  issue.identifier \o ": " \o issue.title \o " - " \o issue.state \o " - "
    \o mapName(issue.assignee) \o " [" \o issue.priorityLabel \o "]"

LinearSection(header, issues) ==
  IF Len(issues) > 0
  THEN <<header>> \o [i \in DOMAIN issues |-> LinearIssueLine(issues[i])] \o <<"">>
  ELSE <<>>

formatLinearData(d) ==
  LinearSection("=== NEW ISSUES ===", d.newIssues)
    \o LinearSection("=== UPDATED ISSUES ===", d.activeIssues)
    \o (IF Len(d.recentComments) > 0
        THEN <<"=== RECENT COMMENTS ===">>
               \o Flatten([i \in DOMAIN d.recentComments |->
                    << "[" \o d.recentComments[i].issue \o "] " \o mapName(d.recentComments[i].author)
                         \o ": " \o StrOf(d.recentComments[i].body), "" >>])
        ELSE <<>>)

(* ------------------------------ pipeline ------------------------------- *)
IsBlank(line) == line \in {"", " ", "\n"}

\* String.prototype.trim on a text
RECURSIVE TrimStart(_)
TrimStart(t) == IF t # <<>> /\ IsBlank(Head(t)) THEN TrimStart(Tail(t)) ELSE t

RECURSIVE TrimEnd(_)
TrimEnd(t) == IF t # <<>> /\ IsBlank(t[Len(t)]) THEN TrimEnd(SubSeq(t, 1, Len(t) - 1)) ELSE t

Trim(t) == TrimEnd(TrimStart(t))

\* the text `part` occurs in the text `whole`
Contains(whole, part) ==
  \E i \in 0..(Len(whole) - Len(part)) : SubSeq(whole, i + 1, i + Len(part)) = part

\* the label that ignores isPreprocessed
DataLabelRaw(pre) == IF script = "git" THEN "RAW ACTIVITY DATA:" ELSE "RAW LINEAR DATA:"

\* the prompt built by generateSlackSummary of the running script
DataLabel(pre) ==
  IF script = "git"
  THEN (IF pre THEN "ORGANIZED ACTIVITY DATA" ELSE "RAW ACTIVITY DATA") \o ":"
  ELSE (IF pre THEN "ORGANIZED LINEAR DATA" ELSE "RAW LINEAR DATA") \o ":"

PromptHead(pre) ==
  IF script = "git"
  THEN "You are a dev activity summarizer. Generate a Slack daily summary from this "
         \o (IF pre THEN "pre-organized" ELSE "raw") \o " data."
  ELSE "You are a Linear ticket activity summarizer. Generate a concise Slack summary from this "
         \o (IF pre THEN "pre-organized" ELSE "raw") \o " Linear data."

SlackPrompt(text, pre) ==
  <<PromptHead(pre), "Date: today", DataLabel(pre)>> \o text \o <<"FORMAT RULES:">>

EmptyLinear == [newIssues |-> <<>>, activeIssues |-> <<>>, recentComments |-> <<>>]

NoReply == [kind |-> "none"]

PipeIdle ==
  /\ rawData = <<>>
  /\ structuredData = <<>>
  /\ isPreprocessed = FALSE
  /\ stage1 = "none"
  /\ stage1Reply = NoReply
  /\ stage2 = "none"
  /\ llmReply = NoReply
  /\ prompt = <<>>
  /\ summary = <<>>
  /\ posts = 0
  /\ postReply = NoReply

\* no caller holds the event loop
NoProc == -1

\* the bot process is not part of a scheduled run
BotIdle ==
  /\ lastSummary = <<>>
  /\ lastRawData = <<>>
  /\ lastLinearData = <<>>
  /\ bpc = <<>>
  /\ question = <<>>
  /\ botPrompt = <<>>
  /\ answer = <<>>
  /\ fetching = {}
  /\ blocked = NoProc
  /\ botLog = <<>>
  /\ eyes = <<>>

\* build-context.js is not part of the run
CtxIdle ==
  /\ contextFile = <<>>
  /\ notionCfg = FALSE
  /\ generatedParts = <<>>
  /\ writes = 0

(* ---------------------- main of the scheduled run --------------------- *)
\* the answers of the structuring endpoint to the request carrying `raw`
Stage1Replies(raw) ==
  {[kind |-> "network"], [kind |-> "status", status |-> 500], [kind |-> "badjson"]}
  \cup {[kind |-> "ok", content |-> c] :
          c \in {<<>>, <<" ">>, <<" ", "Alice: 1 commit", "\n">>, raw}}

\* what the formatting command can write to its standard output
LlmOutputs == {<<>>, <<" ">>, <<"*Summary*", "- item", "\n">>, <<"*Summary*", "---", "- more">>}

PostReplies == {[kind |-> "network"], [kind |-> "status", status |-> 200],
                [kind |-> "status", status |-> 500]}

LinearFailures == {[kind |-> "network"], [kind |-> "status", status |-> 401],
                   [kind |-> "errors"], [kind |-> "noteam"]}

Exit(code, logs) ==
  /\ pc' = "exited"
  /\ exitCode' = code
  /\ output' = output \o logs

\* the startup checks of main
Start ==
  /\ pc = "main"
  /\ script \in {"git", "linear"}
  /\ IF script = "git"
     THEN IF ~dryRun /\ (~webhookOk \/ placeholder)
          THEN Exit(1, <<"ERROR: slackWebhookUrl not configured">>)
          ELSE /\ pc' = "repos"
               /\ UNCHANGED <<exitCode, output>>
     ELSE IF linearCfg = "nokey" THEN Exit(1, <<"ERROR: LINEAR_API_KEY not set">>)
          ELSE IF linearCfg = "noteam" THEN Exit(1, <<"ERROR: linearTeamId not set in config.json">>)
          ELSE IF ~dryRun /\ ~webhookOk
          THEN Exit(1, <<"ERROR: linearSlackWebhookUrl not set in config.json">>)
          ELSE /\ pc' = "fetch_linear"
               /\ exitCode' = exitCode
               /\ output' = Append(output, "Fetching Linear activity...")
  /\ UNCHANGED <<collectVars, configVars, botVars, ctxVars, linearData, pipeVars>>

\* fetchLinearActivity resumes: it throws, or returns the categorised issues
LinearFailed == failed \cup {[repo |-> <<"linear">>, listing |-> "issues"]}

\* the rejection caught and taken for an empty answer
FetchLinearSkipped ==
  /\ pc = "fetch_linear"
  /\ pc' = "collected"
  /\ failed' = LinearFailed
  /\ output' = Append(output, "Found issues and comments")
  /\ UNCHANGED <<since, extraRepos, allRepos, ri, branches, bi, seenSHAs, data, quota, listed, missed>>
  /\ UNCHANGED <<configVars, botVars, ctxVars, linearData, pipeVars, exitCode>>

FetchLinearFails ==
  /\ pc = "fetch_linear"
  /\ \E reply \in LinearFailures : Exit(1, <<"ERROR: " \o reply.kind>>)
  /\ failed' = LinearFailed
  /\ UNCHANGED <<since, extraRepos, allRepos, ri, branches, bi, seenSHAs, data, quota, listed, missed>>
  /\ UNCHANGED <<configVars, botVars, ctxVars, linearData, pipeVars>>

FetchLinearReturns ==
  /\ pc = "fetch_linear"
  /\ \E nodes \in SeqsUpTo(LinearIssuePool, FirstPage) :
       /\ linearData' = Categorize(nodes, since)
       /\ quota' = quota - Len(nodes)
       /\ listed' = listed \cup Listed("ticket", <<"linear">>, "issues", nodes)
       /\ \E more \in Beyond([ok |-> TRUE, recs |-> nodes], LinearIssuePool) :
            missed' = missed \cup Listed("ticket", <<"linear">>, "issues", more)
  /\ pc' = "collected"
  /\ output' = Append(output, "Found issues and comments")
  /\ UNCHANGED <<since, extraRepos, allRepos, ri, branches, bi, seenSHAs, data, failed>>
  /\ UNCHANGED <<configVars, botVars, ctxVars, pipeVars, exitCode>>

Total ==
  IF script = "git" THEN totalActivity(data)
  ELSE Len(linearData.newIssues) + Len(linearData.activeIssues) + Len(linearData.recentComments)

Rendered == IF script = "git" THEN formatRawData(data) ELSE formatLinearData(linearData)

\* the run goes on whatever the totals are
NeverNoActivity == FALSE

\* `if (totalActivity === 0)` / `if (totalIssues === 0 && totalComments === 0)`
NoActivityFound == Total = 0

NoActivity ==
  /\ pc = "collected"
  /\ NoActivityFound
  /\ Exit(0, <<IF script = "git" THEN "No activity found. Skipping summary."
               ELSE "No Linear activity found. Skipping summary.">>)
  /\ UNCHANGED <<collectVars, configVars, botVars, ctxVars, linearData, pipeVars>>

\* where main continues after calling preprocessWithGemini without awaiting it
NoAwaitStage1 == "stage2"

\* main awaits the structuring call
AfterStage1Call == "await_stage1"

\* step 2 with a key: render, then call the structuring endpoint
StartStage1 ==
  /\ pc = "collected"
  /\ ~NoActivityFound
  /\ hasKey
  /\ rawData' = Rendered
  /\ structuredData' = Rendered
  /\ isPreprocessed' = FALSE
  /\ stage1' = "pending"
  /\ pc' = AfterStage1Call
  /\ output' = Append(output, "Running Gemini Flash pre-processing...")
  /\ UNCHANGED <<collectVars, configVars, botVars, ctxVars, linearData, stage1Reply, stage2, llmReply,
                 prompt, summary, posts, postReply, exitCode>>

\* step 2 without a key
SkipStage1 ==
  /\ pc = "collected"
  /\ ~NoActivityFound
  /\ ~hasKey
  /\ rawData' = Rendered
  /\ structuredData' = Rendered
  /\ isPreprocessed' = FALSE
  /\ stage1' = "skipped"
  /\ pc' = "stage2"
  /\ output' = Append(output, "No OPENROUTER_API_KEY - skipping Gemini pre-processing")
  /\ UNCHANGED <<collectVars, configVars, botVars, ctxVars, linearData, stage1Reply, stage2, llmReply,
                 prompt, summary, posts, postReply, exitCode>>

\* `if (result)` taken for every result
Stage1AcceptsAny(result) == TRUE

\* `if (result)` never taken
Stage1AcceptsNone(result) == FALSE

\* `if (result)`: a non-empty structuring result replaces the rendered text
Stage1Accepts(result) == result # <<>>

\* preprocessWithGemini throws: fetch rejects, !res.ok, or res.json() rejects
Stage1Throws(reply) == reply.kind \in {"network", "status", "badjson"}

\* the structuring call resolves and main resumes in its try block
Stage1Respond ==
  /\ stage1 = "pending"
  /\ \E reply \in Stage1Replies(rawData) :
       /\ stage1Reply' = reply
       /\ IF Stage1Throws(reply)
          THEN /\ output' = output \o <<"Gemini pre-processing failed", "Falling back to raw data...">>
               /\ UNCHANGED <<structuredData, isPreprocessed>>
          ELSE LET result == Trim(reply.content) IN
               IF Stage1Accepts(result)
               THEN /\ structuredData' = result
                    /\ isPreprocessed' = TRUE
                    /\ output' = output
               ELSE /\ output' = Append(output, "Gemini returned empty result, using raw data...")
                    /\ UNCHANGED <<structuredData, isPreprocessed>>
  /\ stage1' = "resolved"
  /\ pc' = "stage2"
  /\ UNCHANGED <<collectVars, configVars, botVars, ctxVars, linearData, rawData, stage2, llmReply,
                 prompt, summary, posts, postReply, exitCode>>

\* step 3: generateSlackSummary pipes the prompt to the formatting command
InvokeStage2 ==
  /\ pc = "stage2"
  /\ prompt' = SlackPrompt(structuredData, isPreprocessed)
  /\ stage2' = "running"
  /\ pc' = "await_stage2"
  /\ output' = Append(output, "Running LLM summary...")
  /\ UNCHANGED <<collectVars, configVars, botVars, ctxVars, linearData, rawData, structuredData, isPreprocessed,
                 stage1, stage1Reply, llmReply, summary, posts, postReply, exitCode>>

\* `if (dryRun)` never taken
NeverDryRun == FALSE

\* `if (dryRun)`
IsDryRun == dryRun

\* `if (!summary)` never taken
SummaryNeverMissing(text) == FALSE

\* `if (!summary)`
SummaryMissing(text) == text = <<>>

\* the last line a git dry run prints: the number of events of each kind
CountsLine(d) ==
  "Raw: " \o ToString(Len(d.commits)) \o " commits, "
    \o ToString(Len(d.prs)) \o " PRs, "
    \o ToString(Len(d.reviews)) \o " reviews, "
    \o ToString(Len(d.comments)) \o " comments, "
    \o ToString(Len(d.issues)) \o " issues, "
    \o ToString(Len(d.releases)) \o " releases, "
    \o ToString(Len(d.branchEvents)) \o " branch events, "
    \o ToString(Len(d.memberEvents)) \o " membership"

DryRunOutput(text) ==
  <<"DRY RUN - would post to Slack:", "---">> \o text \o <<"---", "">>
    \o (IF isPreprocessed THEN <<"Gemini structured data:">> \o structuredData \o <<"">> ELSE <<>>)
    \o (IF script = "git" THEN <<CountsLine(data)>> ELSE <<"Raw Linear data:">> \o rawData)

\* the formatting command exits within the timeout
Stage2Exit ==
  /\ pc = "await_stage2"
  /\ \E reply \in {[kind |-> "exit", code |-> 1, out |-> <<>>]}
                    \cup {[kind |-> "exit", code |-> 0, out |-> o] : o \in LlmOutputs} :
       /\ llmReply' = reply
       /\ stage2' = "resolved"
       /\ IF reply.code # 0
          THEN /\ Exit(1, <<"ERROR: LLM failed">>)
               /\ UNCHANGED <<summary, posts>>
          ELSE LET text == Trim(reply.out) IN
               /\ summary' = text
               /\ IF SummaryMissing(text)
                  THEN /\ Exit(1, <<"ERROR: Empty summary from LLM">>)
                       /\ posts' = posts
                  ELSE IF IsDryRun
                  THEN /\ Exit(0, DryRunOutput(text))
                       /\ posts' = posts
                  ELSE /\ posts' = posts + 1
                       /\ pc' = "await_post"
                       /\ UNCHANGED <<exitCode, output>>
  /\ UNCHANGED <<collectVars, configVars, botVars, ctxVars, linearData, rawData, structuredData, isPreprocessed,
                 stage1, stage1Reply, prompt, postReply>>

\* execSync kills the formatting command after its timeout and throws
Stage2Timeout ==
  /\ pc = "await_stage2"
  /\ llmReply' = [kind |-> "timeout"]
  /\ stage2' = "resolved"
  /\ Exit(1, <<"ERROR: LLM failed">>)
  /\ UNCHANGED <<collectVars, configVars, botVars, ctxVars, linearData, rawData, structuredData, isPreprocessed,
                 stage1, stage1Reply, prompt, summary, posts, postReply>>

\* a second POST after a delivery that did not succeed
RetriesOnce(reply) == posts < 2 /\ (reply.kind = "network" \/ reply.status # 200)

\* main issues the POST in straight-line code: no loop, no second fetch
Retries(reply) == FALSE

\* the webhook answers the delivery POST
PostRespond ==
  /\ pc = "await_post"
  /\ \E reply \in PostReplies :
       /\ postReply' = reply
       /\ IF Retries(reply)
          THEN /\ posts' = posts + 1
               /\ UNCHANGED <<pc, exitCode, output>>
          ELSE /\ posts' = posts
               /\ IF reply.kind = "network" THEN Exit(1, <<"ERROR: fetch failed">>)
                  ELSE IF reply.status = 200 THEN Exit(0, <<"Posted to Slack successfully">>)
                  ELSE Exit(1, <<"ERROR: Slack returned HTTP " \o ToString(reply.status)>>)
  /\ UNCHANGED <<collectVars, configVars, botVars, ctxVars, linearData, rawData, structuredData, isPreprocessed,
                 stage1, stage1Reply, stage2, llmReply, prompt, summary>>

(* --------------------------- build-context.js -------------------------- *)
MARKER == "<!-- AUTO-GENERATED BELOW - DO NOT EDIT MANUALLY -->"

\* what context.md can hold when the run starts (no file reads as '')
ContextFiles ==
  { <<>>,
    <<"# Project", "">>,
    <<"# Project", " ", MARKER, "", "_Last updated: then_", "">> }

\* the lines of a string: '' is one empty line
LinesOf(t) == IF t = <<>> THEN <<"">> ELSE t

\* existingContent.indexOf(MARKER), as a line number (0: not found)
markerIdx(content) ==
  IF \E i \in DOMAIN content : content[i] = MARKER
  THEN CHOOSE i \in DOMAIN content :
         content[i] = MARKER /\ \A j \in 1..(i - 1) : content[j] # MARKER
  ELSE 0

\* a split that does not look for the marker
staticSectionWhole(content) == TrimEnd(content)

\* the static section: the text before the marker, or the whole file
staticSection(content) ==
  IF markerIdx(content) # 0
  THEN TrimEnd(SubSeq(content, 1, markerIdx(content) - 1))
  ELSE TrimEnd(content)

\* `${staticSection}\n\n${MARKER}\n\n${autoSection}`
FinalContent(content, parts) ==
  LinesOf(staticSection(content)) \o <<"", MARKER, "">> \o parts

TicketLine(issue) ==
  "- " \o issue.identifier \o ": " \o issue.title \o " - " \o issue.state \o " - "
    \o mapName(issue.assignee)

formatTickets(issues) == [i \in DOMAIN issues |-> TicketLine(issues[i])]

\* a recently edited Notion page: its title, whether its blocks hold fewer
\* than 50 characters, how summarizeWithGemini ends and whether the blocks
\* can be fetched again
PagePool ==
  [title : {"Spec A", "Spec B"}, minimal : BOOLEAN, gemini : {"ok", "throws"}, refetch : BOOLEAN]

\* the query returns no page, page A, or a page A that cannot be summarized
\* and then page B
NotionListings ==
  {<<>>} \cup {<<pg>> : pg \in {x \in PagePool : x.title = "Spec A"}}
    \cup {<<pg, ph>> : pg \in {x \in PagePool : x.title = "Spec A" /\ ~x.minimal /\ x.gemini = "throws"},
                      ph \in {x \in PagePool : x.title = "Spec B" /\ ~x.minimal /\ x.refetch}}

\* the entry of one page in specSummaries
SpecSummary(page) ==
  <<"### " \o page.title, "">>
    \o (IF page.minimal THEN <<"_Page has minimal content._">>
        ELSE IF ~hasKey THEN <<"Long text of the page...">>
        ELSE IF page.gemini = "ok" THEN <<"- what it does">>
        ELSE IF page.refetch THEN <<"Long text of the page">>
        ELSE <<"_Could not fetch content._">>)

SpecLogs(page) ==
  <<"  Summarizing: " \o page.title>>
    \o (IF ~page.minimal /\ hasKey /\ page.gemini = "throws"
        THEN <<"  Error for \"" \o page.title \o "\" (non-fatal)">>
        ELSE <<>>)

NotionLog ==
  IF notionCfg THEN "Fetching recent Notion specs..."
  ELSE "Skipping Notion (no NOTION_API_KEY or notionDatabaseId)"

AfterCtxLinear == IF notionCfg THEN "ctx_notion" ELSE "ctx_write"

\* main of build-context.js up to its first await
CtxStart ==
  /\ pc = "main"
  /\ script = "context"
  /\ generatedParts' = <<"_Last updated: now_", "">>
  /\ IF linearCfg = "ok"
     THEN /\ pc' = "ctx_linear"
          /\ output' = Append(output, "Fetching active Linear tickets...")
     ELSE /\ pc' = AfterCtxLinear
          /\ output' = output \o <<"Skipping Linear (no LINEAR_API_KEY or linearTeamId)", NotionLog>>
  /\ UNCHANGED <<collectVars, configVars, botVars, linearData, pipeVars, exitCode>>
  /\ UNCHANGED <<contextFile, notionCfg, writes>>

\* fetchActiveTickets resolves
CtxLinearReturns ==
  /\ pc = "ctx_linear"
  /\ \E issues \in SeqsUpTo(LinearIssuePool, quota) :
       /\ generatedParts' = generatedParts \o <<"## Active Tickets (Linear)", "">>
                              \o LinesOf(formatTickets(issues)) \o <<"">>
       /\ output' = output \o <<"Found " \o ToString(Len(issues)) \o " active tickets", NotionLog>>
       /\ quota' = quota - Len(issues)
       /\ listed' = listed \cup Listed("active", <<"linear">>, "issues", issues)
  /\ pc' = AfterCtxLinear
  /\ UNCHANGED <<since, extraRepos, allRepos, ri, branches, bi, seenSHAs, data, failed, missed>>
  /\ UNCHANGED <<configVars, botVars, linearData, pipeVars, exitCode>>
  /\ UNCHANGED <<contextFile, notionCfg, writes>>

\* a failure of fetchActiveTickets that ends the run
CtxLinearFatal ==
  /\ pc = "ctx_linear"
  /\ \E reply \in LinearFailures : Exit(1, <<"ERROR: " \o reply.kind>>)
  /\ failed' = LinearFailed
  /\ UNCHANGED <<since, extraRepos, allRepos, ri, branches, bi, seenSHAs, data, quota, listed, missed>>
  /\ UNCHANGED <<configVars, botVars, linearData, pipeVars>>
  /\ UNCHANGED <<contextFile, notionCfg, generatedParts, writes>>

\* fetchActiveTickets throws
CtxLinearFails ==
  /\ pc = "ctx_linear"
  /\ \E reply \in LinearFailures :
       /\ generatedParts' = generatedParts
            \o <<"## Active Tickets (Linear)", "", "_Failed to fetch: " \o reply.kind \o "_", "">>
       /\ output' = output \o <<"Linear error (non-fatal): " \o reply.kind, NotionLog>>
  /\ pc' = AfterCtxLinear
  /\ failed' = LinearFailed
  /\ UNCHANGED <<since, extraRepos, allRepos, ri, branches, bi, seenSHAs, data, quota, listed, missed>>
  /\ UNCHANGED <<configVars, botVars, linearData, pipeVars, exitCode>>
  /\ UNCHANGED <<contextFile, notionCfg, writes>>

\* fetchNotionSpecs resolves and every page is summarized
CtxNotionReturns ==
  /\ pc = "ctx_notion"
  /\ \E pages \in NotionListings :
       /\ generatedParts' =
            IF Len(pages) > 0
            THEN generatedParts \o <<"## Recent Specs (Notion)", "">>
                   \o Flatten([i \in DOMAIN pages |-> SpecSummary(pages[i])]) \o <<"">>
            ELSE generatedParts
       /\ output' = output \o <<"Found " \o ToString(Len(pages)) \o " recently edited specs">>
                      \o Flatten([i \in DOMAIN pages |-> SpecLogs(pages[i])])
  /\ pc' = "ctx_write"
  /\ UNCHANGED <<collectVars, configVars, botVars, linearData, pipeVars, exitCode>>
  /\ UNCHANGED <<contextFile, notionCfg, writes>>

\* fetchNotionSpecs throws
CtxNotionFails ==
  /\ pc = "ctx_notion"
  /\ generatedParts' = generatedParts
       \o <<"## Recent Specs (Notion)", "", "_Failed to fetch: Notion API error_", "">>
  /\ output' = Append(output, "Notion error (non-fatal): Notion API error")
  /\ pc' = "ctx_write"
  /\ UNCHANGED <<collectVars, configVars, botVars, linearData, pipeVars, exitCode>>
  /\ UNCHANGED <<contextFile, notionCfg, writes>>

\* the final content is printed (dry run) or written to context.md
CtxFinish ==
  /\ pc = "ctx_write"
  /\ LET finalContent == FinalContent(contextFile, generatedParts) IN
     IF IsDryRun
     THEN /\ Exit(0, <<"DRY RUN - would write to context.md:", "---">> \o finalContent \o <<"---">>)
          /\ UNCHANGED <<contextFile, writes>>
     ELSE /\ writes' = writes + 1
          /\ \E written \in BOOLEAN :
               IF written
               THEN /\ contextFile' = finalContent
                    /\ Exit(0, <<"Updated context.md">>)
               ELSE /\ contextFile' = contextFile
                    /\ Exit(1, <<"ERROR: EACCES: permission denied">>)
  /\ UNCHANGED <<collectVars, configVars, botVars, linearData, pipeVars>>
  /\ UNCHANGED <<notionCfg, generatedParts>>

Init ==
  /\ pc = "main"
  /\ since \in SinceValues
  /\ extraRepos = <<>>
  /\ allRepos = <<>>
  /\ ri = 0
  /\ branches = <<>>
  /\ bi = 0
  /\ seenSHAs = {}
  /\ data = EmptyData
  /\ quota = RunRecords
  /\ listed = {}
  /\ failed = {}
  /\ missed = {}
  /\ script \in {"git", "linear", "context"}
  /\ dryRun \in BOOLEAN
  /\ webhookOk \in BOOLEAN
  /\ placeholder \in IF webhookOk THEN BOOLEAN ELSE {FALSE}
  /\ hasKey \in BOOLEAN
  /\ linearCfg \in IF script = "git" THEN {"ok"} ELSE {"ok", "nokey", "noteam"}
  /\ linearData = EmptyLinear
  /\ PipeIdle
  /\ BotIdle
  /\ contextFile \in IF script = "context" THEN ContextFiles ELSE {<<>>}
  /\ notionCfg \in IF script = "context" THEN BOOLEAN ELSE {FALSE}
  /\ generatedParts = <<>>
  /\ writes = 0
  /\ exitCode = -1
  /\ output = <<>>

Next ==
  \/ Start
  \/ ListRepos
  \/ ListBranches
  \/ ListCommits
  \/ ListPRs
  \/ ListIssueComments
  \/ ListReviewComments
  \/ ListIssues
  \/ ListReleases
  \/ ListOrgEvents
  \/ FetchLinearFails
  \/ FetchLinearReturns
  \/ NoActivity
  \/ StartStage1
  \/ SkipStage1
  \/ Stage1Respond
  \/ InvokeStage2
  \/ Stage2Exit
  \/ Stage2Timeout
  \/ PostRespond
  \/ CtxStart
  \/ CtxLinearReturns
  \/ CtxLinearFails
  \/ CtxNotionReturns
  \/ CtxNotionFails
  \/ CtxFinish

Spec == Init /\ [][Next]_vars

\* the steps the program and its time-bounded calls are sure to take: the
\* gh listings (timeout 30000), the formatting command (timeout 120000) and
\* the program's own steps; the fetch calls carry no timeout
Bounded ==
  \/ Start
  \/ collectGitData
  \/ NoActivity
  \/ StartStage1
  \/ SkipStage1
  \/ InvokeStage2
  \/ Stage2Exit
  \/ Stage2Timeout
  \/ CtxStart
  \/ CtxFinish

SpecFair == Init /\ [][Next]_vars /\ WF_vars(Bounded)

(* -------------- build-context.js, execution after execution ------------ *)
\* cron starts build-context.js again ("50 5 * * 1-5"); a user may start it
\* by hand with or without --dry-run
CtxRerun ==
  /\ pc = "exited"
  /\ script = "context"
  /\ writes < MaxRuns
  /\ pc' = "main"
  /\ exitCode' = -1
  /\ output' = <<>>
  /\ generatedParts' = <<>>
  /\ quota' = RunRecords
  /\ dryRun' \in BOOLEAN
  /\ listed' = {}
  /\ failed' = {}
  /\ UNCHANGED <<since, extraRepos, allRepos, ri, branches, bi, seenSHAs, data, missed>>
  /\ UNCHANGED <<script, webhookOk, placeholder, hasKey, linearCfg>>
  /\ UNCHANGED <<botVars, linearData, pipeVars>>
  /\ UNCHANGED <<contextFile, notionCfg, writes>>

\* build-context.js reads neither the window nor the webhook
InitContext ==
  /\ Init
  /\ script = "context"
  /\ since = <<"1", ".", "0", "Z">>
  /\ ~webhookOk

NextContext ==
  \/ CtxStart
  \/ CtxLinearReturns
  \/ CtxLinearFails
  \/ CtxNotionReturns
  \/ CtxNotionFails
  \/ CtxFinish
  \/ CtxRerun

SpecContext == InitContext /\ [][NextContext]_vars

(* ------------------ the detailed scan on its own ----------------------- *)
InitCollect ==
  /\ pc = "repos"
  /\ since \in SinceValues
  /\ extraRepos \in ExtraRepoConfigs
  /\ allRepos = <<>>
  /\ ri = 0
  /\ branches = <<>>
  /\ bi = 0
  /\ seenSHAs = {}
  /\ data = EmptyData
  /\ quota = MaxRecords
  /\ listed = {}
  /\ failed = {}
  /\ missed = {}
  /\ script = "git"
  /\ dryRun = TRUE
  /\ webhookOk = FALSE
  /\ placeholder = FALSE
  /\ hasKey = FALSE
  /\ linearCfg = "ok"
  /\ linearData = EmptyLinear
  /\ PipeIdle
  /\ BotIdle
  /\ CtxIdle
  /\ exitCode = -1
  /\ output = <<>>

NextCollect ==
  \/ ListRepos
  \/ ListBranches
  \/ ListCommits
  \/ ListPRs
  \/ ListIssueComments
  \/ ListReviewComments
  \/ ListIssues
  \/ ListReleases
  \/ ListOrgEvents

SpecCollect == InitCollect /\ [][NextCollect]_vars

(* ------------- git-summary.sh, the legacy scan (lines 38-125) ---------- *)
\* SINCE of the shell script has second precision
ShSinceValues == {T1}

\* "[$repo_name] $author: $message"
ShCommitLine(r, line) == "[" \o RepoName(r) \o "] " \o line.author \o ": " \o line.message

\* the jq filter of FILTERED_PRS: created, merged or updated in the window
ShPrKept(pr, s) ==
  \/ ~StrLT(pr.createdAt, s)
  \/ (pr.mergedAt # NoTime /\ ~StrLT(pr.mergedAt, s))
  \/ ~StrLT(pr.updatedAt, s)

\* "[$repo_name] [\(.state)] #\(.number) \(.title) by @\(.author.login)"
ShPrLine(r, pr) ==
  "[" \o RepoName(r) \o "] [" \o pr.state \o "] #" \o pr.number \o " " \o pr.title
    \o " by @" \o (IF pr.author = NULL THEN "null" ELSE pr.author)

RECURSIVE ShScanCommits(_, _, _, _)
ShScanCommits(lines, r, seen, acc) ==
  IF lines = <<>> THEN [seen |-> seen, commits |-> acc]
  ELSE LET line == Head(lines) IN
       IF line.sha = "" \/ line.sha \in seen
       THEN ShScanCommits(Tail(lines), r, seen, acc)
       ELSE ShScanCommits(Tail(lines), r, seen \cup {line.sha}, Append(acc, ShCommitLine(r, line)))

\* the variables of the run that no step of the shell scan changes
shFixed == <<since, extraRepos, missed, configVars, botVars, ctxVars, linearData, pipeVars>>

\* after the last repository: the counts are logged
ShAfterRepo == IF ri + 1 > Len(allRepos) THEN "collected" ELSE "branches"

ShCollected(d) ==
  "Collected " \o ToString(Len(d.commits)) \o " commits, " \o ToString(Len(d.prs)) \o " PRs"

ShLeave(nextRi, d) ==
  IF nextRi > Len(allRepos) THEN <<ShCollected(d)>> ELSE <<>>

\* ORG_REPOS: under `set -e` a failed listing ends the script
ShListRepos ==
  /\ pc = "repos"
  /\ \E reply \in GhReplies(OrgRepoListings) :
       IF reply.ok
       THEN LET repos == [i \in DOMAIN reply.recs |-> OrgRepo(reply.recs[i])] \o extraRepos
            IN  /\ allRepos' = repos
                /\ pc' = IF Len(repos) = 0 THEN "collected" ELSE "branches"
                /\ output' = output \o <<"Found " \o ToString(Len(repos)) \o " repos to scan">>
                               \o (IF Len(repos) = 0 THEN <<ShCollected(data)>> ELSE <<>>)
                /\ UNCHANGED <<quota, failed, exitCode>>
       ELSE /\ pc' = "exited"
            /\ exitCode' = 1
            /\ quota' = quota - 1
            /\ failed' = Failed(reply, <<Org>>, "repos")
            /\ UNCHANGED <<allRepos, output>>
  /\ ri' = 1
  /\ UNCHANGED <<branches, bi, seenSHAs, data, listed>>
  /\ UNCHANGED shFixed

\* BRANCHES, with SEEN_SHAS emptied for the repository
ShListBranches ==
  /\ pc = "branches"
  /\ \E reply \in GhReplies(BranchListings) :
       LET bs == gh(reply)
           r == allRepos[ri]
       IN  /\ IF bs = <<>>
              THEN /\ ri' = ri + 1
                   /\ pc' = ShAfterRepo
                   /\ UNCHANGED <<branches, bi, seenSHAs>>
                   /\ output' = output \o <<"Scanning " \o FullName(r) \o "...",
                                            "  No branches in " \o FullName(r) \o ", skipping">>
                                  \o ShLeave(ri + 1, data)
              ELSE /\ branches' = bs
                   /\ bi' = 1
                   /\ seenSHAs' = {}
                   /\ pc' = "commits"
                   /\ ri' = ri
                   /\ output' = Append(output, "Scanning " \o FullName(r) \o "...")
           /\ quota' = IF reply.ok THEN quota ELSE quota - 1
           /\ failed' = Failed(reply, r, "branches")
  /\ UNCHANGED <<allRepos, data, listed, exitCode>>
  /\ UNCHANGED shFixed

ShListCommits ==
  /\ pc = "commits"
  /\ \E reply \in GhReplies(SeqsUpTo(CommitPool, FirstPage)) :
       LET r == allRepos[ri]
           lines == gh(reply)
           scan == ShScanCommits(lines, r, seenSHAs, data.commits)
       IN  /\ seenSHAs' = scan.seen
           /\ data' = [data EXCEPT !.commits = scan.commits]
           /\ quota' = quota - Cost(reply)
           /\ listed' = listed \cup Listed("commit", r, branches[bi], lines)
           /\ failed' = Failed(reply, r, "commits")
  /\ bi' = bi + 1
  /\ pc' = IF bi = Len(branches) THEN "prs" ELSE "commits"
  /\ UNCHANGED <<allRepos, ri, branches, exitCode, output>>
  /\ UNCHANGED shFixed

\* PRS and FILTERED_PRS
ShListPRs ==
  /\ pc = "prs"
  /\ \E reply \in GhReplies(SeqsUpTo(PrPool, FirstPage)) :
       LET r == allRepos[ri]
           prs == gh(reply)
           kept == SelectSeq(prs, LAMBDA pr : ShPrKept(pr, since))
       IN  /\ data' = [data EXCEPT !.prs = @ \o [i \in DOMAIN kept |-> ShPrLine(r, kept[i])]]
           /\ quota' = quota - Cost(reply)
           /\ listed' = listed \cup Listed("pr", r, "prs", prs)
           /\ failed' = Failed(reply, r, "prs")
           /\ output' = output \o ShLeave(ri + 1, data')
  /\ ri' = ri + 1
  /\ pc' = ShAfterRepo
  /\ UNCHANGED <<allRepos, branches, bi, seenSHAs, exitCode>>
  /\ UNCHANGED shFixed

InitLegacy ==
  /\ pc = "repos"
  /\ since \in ShSinceValues
  /\ extraRepos \in ExtraRepoConfigs
  /\ allRepos = <<>>
  /\ ri = 0
  /\ branches = <<>>
  /\ bi = 0
  /\ seenSHAs = {}
  /\ data = [commits |-> <<>>, prs |-> <<>>]
  /\ quota = MaxRecords
  /\ listed = {}
  /\ failed = {}
  /\ missed = {}
  /\ script = "sh"
  /\ dryRun = TRUE
  /\ webhookOk = FALSE
  /\ placeholder = FALSE
  /\ hasKey = FALSE
  /\ linearCfg = "ok"
  /\ linearData = EmptyLinear
  /\ PipeIdle
  /\ BotIdle
  /\ CtxIdle
  /\ exitCode = -1
  /\ output = <<>>

NextLegacy ==
  \/ ShListRepos
  \/ ShListBranches
  \/ ShListCommits
  \/ ShListPRs

SpecLegacy == InitLegacy /\ [][NextLegacy]_vars

(* ------------- the renderers on their own (pure functions) ------------- *)
\* identities of the origin, as the collection stores them
RenderAuthors == <<"alice", "alice-dev", "bob">>

AuthorAt(i) == RenderAuthors[((i - 1) % Len(RenderAuthors)) + 1]

\* the i-th event of each kind of a snapshot handed to formatRawData
RenderCommit(i) ==
  [repo |-> "web", fullRepo |-> "acme/web", author |-> AuthorAt(i), branch |-> "main",
   message |-> "m" \o ToString(i), url |-> "c" \o ToString(i)]

RenderPr(i) ==
  [repo |-> "web", fullRepo |-> "acme/web", number |-> ToString(i), title |-> "t",
   author |-> AuthorAt(i), state |-> "OPEN", createdAt |-> "2",
   mergedAt |-> (IF i = 1 THEN "2" ELSE ""), closedAt |-> "", url |-> "p" \o ToString(i)]

RenderReview(i) ==
  [repo |-> "web", prNumber |-> ToString(i), prTitle |-> "t", reviewer |-> AuthorAt(i),
   state |-> "APPROVED"]

RenderComment(i) ==
  [repo |-> "web", author |-> AuthorAt(i), issueNumber |-> ToString(i), body |-> "b",
   createdAt |-> T2, isReviewComment |-> (i = 2)]

RenderIssue(i) ==
  [repo |-> "web", number |-> ToString(i), title |-> "t", author |-> AuthorAt(i),
   state |-> "open", createdAt |-> "2", url |-> "i" \o ToString(i)]

RenderRelease(i) ==
  [repo |-> "web", tag |-> "v" \o ToString(i), name |-> "v" \o ToString(i),
   author |-> AuthorAt(i), publishedAt |-> "2", url |-> "r" \o ToString(i)]

RenderBranchEvent(i) ==
  [repo |-> "web", author |-> AuthorAt(i), action |-> "created", branch |-> "b" \o ToString(i)]

RenderMemberEvent(i) ==
  [repo |-> "web", member |-> AuthorAt(i), action |-> "added", actor |-> AuthorAt(i + 1)]

\* the snapshots: every kind holds 0..RenderLen events
RenderSnapshots ==
  { [commits |-> [i \in 1..k[1] |-> RenderCommit(i)],
     prs |-> [i \in 1..k[2] |-> RenderPr(i)],
     reviews |-> [i \in 1..k[3] |-> RenderReview(i)],
     comments |-> [i \in 1..k[4] |-> RenderComment(i)],
     issues |-> [i \in 1..k[5] |-> RenderIssue(i)],
     releases |-> [i \in 1..k[6] |-> RenderRelease(i)],
     branchEvents |-> [i \in 1..k[7] |-> RenderBranchEvent(i)],
     memberEvents |-> [i \in 1..k[8] |-> RenderMemberEvent(i)]] :
    k \in [1..8 -> 0..RenderLen] }

\* Linear names handed to formatLinearData
RenderNames == <<NameBobby, NameAnn, NameBob>>

NameAt(i) == RenderNames[((i - 1) % Len(RenderNames)) + 1]

RenderLinearIssue(i, created) ==
  [identifier |-> "ENG-" \o ToString(i), title |-> "t", state |-> "Todo",
   assignee |-> (IF i = 2 THEN NoName ELSE NameAt(i)), priorityLabel |-> "High",
   createdAt |-> created, comments |-> <<>>]

\* the second comment's body holds a line break: the body is kept whole up
\* to 500 characters (linear-utils.js:87)
RenderLinearComment(i) ==
  [issue |-> "ENG-" \o ToString(i), issueTitle |-> "t", author |-> NameAt(i),
   body |-> (IF i = 2 THEN <<"a", "\n", "b">> ELSE <<"o", "k">>), createdAt |-> T2]

RenderLinearSnapshots ==
  { [newIssues |-> [i \in 1..k[1] |-> RenderLinearIssue(i, T2)],
     activeIssues |-> [i \in 1..k[2] |-> RenderLinearIssue(i, T0)],
     recentComments |-> [i \in 1..k[3] |-> RenderLinearComment(i)]] :
    k \in [1..3 -> 0..RenderLen] }

\* a renderer that also reads where the program stands
RenderStamped ==
  <<pc>> \o (IF script = "git" THEN formatRawData(data) ELSE formatLinearData(linearData))

\* the renderer of the script, applied to its snapshot
Render == IF script = "git" THEN formatRawData(data) ELSE formatLinearData(linearData)

\* const rawData = formatRawData(data, authorMap)
RenderCall ==
  /\ pc = "render"
  /\ pc' = "rendered"
  /\ rawData' = Render
  /\ UNCHANGED <<collectVars, configVars, botVars, ctxVars, linearData, exitCode, output>>
  /\ UNCHANGED <<structuredData, isPreprocessed, stage1, stage1Reply, stage2, llmReply,
                 prompt, summary, posts, postReply>>

\* the same call once more, on the arguments the first call left behind
RenderAgain ==
  /\ pc = "rendered"
  /\ pc' = "rendered_twice"
  /\ structuredData' = Render
  /\ UNCHANGED <<collectVars, configVars, botVars, ctxVars, linearData, exitCode, output>>
  /\ UNCHANGED <<rawData, isPreprocessed, stage1, stage1Reply, stage2, llmReply,
                 prompt, summary, posts, postReply>>

InitRender ==
  /\ pc = "render"
  /\ script \in {"git", "linear"}
  /\ data \in (IF script = "git" THEN RenderSnapshots ELSE {EmptyData})
  /\ linearData \in (IF script = "linear" THEN RenderLinearSnapshots ELSE {EmptyLinear})
  /\ since = T1
  /\ extraRepos = <<>>
  /\ allRepos = <<>>
  /\ ri = 0
  /\ branches = <<>>
  /\ bi = 0
  /\ seenSHAs = {}
  /\ quota = 0
  /\ listed = {}
  /\ failed = {}
  /\ missed = {}
  /\ dryRun = TRUE
  /\ webhookOk = FALSE
  /\ placeholder = FALSE
  /\ hasKey = FALSE
  /\ linearCfg = "ok"
  /\ PipeIdle
  /\ BotIdle
  /\ CtxIdle
  /\ exitCode = -1
  /\ output = <<>>

NextRender ==
  \/ RenderCall
  \/ RenderAgain

SpecRender == InitRender /\ [][NextRender]_vars

(* ---------------- fetchLinearActivity on large replies ------------------ *)
CatTimes == <<T0, T1, T2>>

\* comment bodies below, at and above the cap
CatBodies == << <<"o", "k">>, [k \in 1..BodyCap |-> "x"], [k \in 1..(BodyCap + 1) |-> "x"] >>

\* the comment nodes of one issue: count of them, creation times and bodies
\* cycling from the given shift
CatComments(count, shift) ==
  [j \in 1..count |->
     [body |-> CatBodies[((j + shift) % 3) + 1], createdAt |-> CatTimes[((j + 2 * shift) % 3) + 1],
      displayName |-> NoName, name |-> NameBobby]]

CatCounts == {0, MaxComments - 1, MaxComments}

CatIssue(id, t, count, shift) ==
  [identifier |-> id, title |-> "t", state |-> "Todo", assignee |-> NoName,
   priorityLabel |-> "Low", createdAt |-> CatTimes[t], comments |-> CatComments(count, shift)]

\* the replies of the GraphQL query: ENG-1, with or without ENG-2 after it
CatReplies ==
  LET first == {CatIssue("ENG-1", t, c, sh) : t \in 1..3, c \in CatCounts, sh \in 0..1}
      second == {CatIssue("ENG-2", t, c, sh) : t \in 1..3, c \in CatCounts, sh \in 0..1}
  IN  {<<a>> : a \in first} \cup {<<a, b>> : a \in first, b \in second}

\* fetchLinearActivity returns for such a reply
CategorizeCall ==
  /\ pc = "fetch_linear"
  /\ \E nodes \in CatReplies :
       /\ linearData' = Categorize(nodes, since)
       /\ listed' = Listed("ticket", <<"linear">>, "issues", nodes)
  /\ pc' = "categorized"
  /\ UNCHANGED <<since, extraRepos, allRepos, ri, branches, bi, seenSHAs, data, quota, failed, missed>>
  /\ UNCHANGED <<configVars, botVars, ctxVars, pipeVars, exitCode, output>>

InitCategorize ==
  /\ pc = "fetch_linear"
  /\ script = "linear"
  /\ since \in SinceValues
  /\ data = EmptyData
  /\ linearData = EmptyLinear
  /\ extraRepos = <<>>
  /\ allRepos = <<>>
  /\ ri = 0
  /\ branches = <<>>
  /\ bi = 0
  /\ seenSHAs = {}
  /\ quota = 0
  /\ listed = {}
  /\ failed = {}
  /\ missed = {}
  /\ dryRun = TRUE
  /\ webhookOk = FALSE
  /\ placeholder = FALSE
  /\ hasKey = FALSE
  /\ linearCfg = "ok"
  /\ PipeIdle
  /\ BotIdle
  /\ CtxIdle
  /\ exitCode = -1
  /\ output = <<>>

NextCategorize == CategorizeCall

SpecCategorize == InitCategorize /\ [][NextCategorize]_vars

(* ------------------------------- the bot ------------------------------- *)
\* mentions delivered to the bot during the modelled period
NMentions == 2

Mentions == 1..NMentions

\* the startup routine of the bot
Startup == 0

Procs == {Startup} \cup Mentions

\* event.text.replace(/<@[A-Z0-9]+>/g, '').trim()
Questions == {"", "what did alice do?"}

\* require('./linear-utils') succeeded
linearUtils == TRUE

\* what collectGitData of the child run returns
CollectResults ==
  {EmptyData}
  \cup {[EmptyData EXCEPT !.commits = <<CommitRecord(OrgRepo("api"), "main", c)>>] :
          c \in {x \in CommitPool : x.sha = "s1"}}

\* the issue nodes the bot's Linear query returns
LinearResults == {<<>>} \cup {<<i>> : i \in {x \in LinearIssuePool : x.identifier = "ENG-1"}}

\* the lines of the child's output that contain 'Raw:'
HasRaw(line, d) == line = CountsLine(d)

\* result.indexOf('---\n'), as a line number (0: not found)
summaryStart(result) ==
  IF \E i \in DOMAIN result : result[i] = "---"
  THEN CHOOSE i \in DOMAIN result :
         result[i] = "---" /\ \A j \in 1..(i - 1) : result[j] # "---"
  ELSE 0

\* result.indexOf('\n---', summaryStart + 4), as the number of the line that
\* follows the newline found (0: not found)
summaryEnd(result, start) ==
  IF \E i \in (start + 2)..Len(result) : result[i] = "---"
  THEN CHOOSE i \in (start + 2)..Len(result) :
         result[i] = "---" /\ \A j \in (start + 2)..(i - 1) : result[j] # "---"
  ELSE 0

\* result.indexOf('Raw:'), as a line number (0: not found)
rawStart(result, d) ==
  IF \E i \in DOMAIN result : HasRaw(result[i], d)
  THEN CHOOSE i \in DOMAIN result :
         HasRaw(result[i], d) /\ \A j \in 1..(i - 1) : ~HasRaw(result[j], d)
  ELSE 0

\* the cache after collectRecentData read the child's output
ExtractSummary(result, old) ==
  LET start == summaryStart(result)
      end == summaryEnd(result, start)
  IN  IF start # 0 /\ end # 0 THEN Trim(SubSeq(result, start + 1, end - 1)) ELSE old

ExtractRaw(result, d, old) ==
  LET start == rawStart(result, d)
  IN  IF start # 0 THEN Trim(SubSeq(result, start, Len(result))) ELSE old

\* the prompt of the app_mention handler
BotPrompt(s, r, l, q) ==
  <<"You are a dev team assistant in a Slack channel.", "LAST DAILY SUMMARY:">>
    \o (IF s = <<>> THEN <<"(no summary available yet)">> ELSE s)
    \o <<"RAW COMMIT/PR DATA (last 24h):">>
    \o (IF r = <<>> THEN <<"(no data available yet)">> ELSE r)
    \o <<"LINEAR TICKET ACTIVITY (last 24h):">>
    \o (IF l = <<>> THEN <<"(no Linear data available)">> ELSE l)
    \o <<"USER QUESTION: " \o q, "RULES:">>
    \o (IF l = <<>> THEN <<>> ELSE <<"- Link Linear tickets">>)

\* the variables no step of the bot process changes
fixedVars == <<since, extraRepos, allRepos, ri, branches, bi, seenSHAs, quota, listed, failed, missed,
               configVars, ctxVars, linearData>>

childVars == <<pc, data, pipeVars, exitCode, output>>

\* no child process: nothing of a git-summary.js run exists
ChildGone ==
  /\ pc' = "idle"
  /\ data' = EmptyData
  /\ rawData' = <<>>
  /\ structuredData' = <<>>
  /\ isPreprocessed' = FALSE
  /\ stage1' = "none"
  /\ stage1Reply' = NoReply
  /\ stage2' = "none"
  /\ llmReply' = NoReply
  /\ prompt' = <<>>
  /\ summary' = <<>>
  /\ posts' = 0
  /\ postReply' = NoReply
  /\ exitCode' = -1
  /\ output' = <<>>

\* execSync starts `node git-summary.js --dry-run`; the child is modelled
\* from the return of its collectGitData
SpawnGitSummary ==
  /\ pc' = "collected"
  /\ data' \in CollectResults
  /\ UNCHANGED <<pipeVars, exitCode, output>>

\* `if (!lastRawData)` taken for every mention
NeedsGitAlways == TRUE

\* a handler that refreshes a cache older than the summary
NeedsGitRefresh == lastRawData = <<>> \/ lastSummary # <<>>

\* `if (!lastRawData)`
NeedsGit == lastRawData = <<>>

\* `if (!lastLinearData && linearUtils)`
NeedsLinear == lastLinearData = <<>> /\ linearUtils

\* collectLinearData gets as far as the fetch
LinearConfigured == linearUtils /\ linearCfg = "ok"

\* where caller p continues once the git cache was looked at
AfterGit(p) ==
  IF p = Startup
  THEN IF LinearConfigured THEN "linear" ELSE "done"
  ELSE IF NeedsLinear /\ LinearConfigured THEN "linear" ELSE "asking"

\* caller p moves on to position pos, holding the cache values s, r and l
Goto(p, pos, s, r, l) ==
  /\ bpc' = [bpc EXCEPT ![p] = pos]
  /\ fetching' = IF pos = "linear" THEN fetching \cup {p} ELSE fetching \ {p}
  /\ blocked' = IF pos \in {"collecting", "asking"} THEN p ELSE NoProc
  /\ botPrompt' = IF pos = "asking"
                  THEN [botPrompt EXCEPT ![p] = BotPrompt(s, r, l, question[p])]
                  ELSE IF pos = "unreacting" THEN [botPrompt EXCEPT ![p] = <<>>]
                  ELSE botPrompt

\* startup: app.start() resolved; collectRecentData(24)
StartupCollect ==
  /\ bpc[Startup] = "start"
  /\ blocked = NoProc
  /\ Goto(Startup, "collecting", lastSummary, lastRawData, lastLinearData)
  /\ SpawnGitSummary
  /\ botLog' = <<"Bot is running (Socket Mode)">>
  /\ UNCHANGED <<lastSummary, lastRawData, lastLinearData, question, answer>>
  /\ UNCHANGED fixedVars
  /\ UNCHANGED eyes

\* the handler of mention h starts: lines 95-111
HandlerStart(h) ==
  /\ bpc[h] = "waiting"
  /\ bpc[Startup] # "start"
  /\ blocked = NoProc
  /\ \E q \in Questions :
       /\ question' = [question EXCEPT ![h] = q]
       /\ IF q = ""
          THEN /\ Goto(h, "saying_help", lastSummary, lastRawData, lastLinearData)
               /\ botLog' = <<>>
          ELSE /\ Goto(h, "reacting", lastSummary, lastRawData, lastLinearData)
               /\ botLog' = <<"Question: " \o q>>
  /\ UNCHANGED <<lastSummary, lastRawData, lastLinearData, answer>>
  /\ UNCHANGED <<fixedVars, childVars>>
  /\ UNCHANGED eyes

\* reactions.add settled (a rejection is ignored); lines 112-122
ReactionAdded(h) ==
  /\ bpc[h] = "reacting"
  /\ blocked = NoProc
  /\ IF NeedsGit
     THEN /\ Goto(h, "collecting", lastSummary, lastRawData, lastLinearData)
          /\ SpawnGitSummary
     ELSE /\ Goto(h, AfterGit(h), lastSummary, lastRawData, lastLinearData)
          /\ UNCHANGED childVars
  /\ botLog' = <<>>
  /\ UNCHANGED <<lastSummary, lastRawData, lastLinearData, question, answer>>
  /\ UNCHANGED fixedVars
  /\ \E ok \in BOOLEAN : eyes' = [eyes EXCEPT ![h] = IF ok THEN "added" ELSE "add_failed"]

\* execSync returns the child's output or throws on a non-zero exit code
CollectReturns(p) ==
  /\ bpc[p] = "collecting"
  /\ blocked = p
  /\ pc = "exited"
  /\ LET ok == exitCode = 0
         s == IF ok THEN ExtractSummary(output, lastSummary) ELSE lastSummary
         r == IF ok THEN ExtractRaw(output, data, lastRawData) ELSE lastRawData
     IN  /\ lastSummary' = s
         /\ lastRawData' = r
         /\ botLog' =
              (IF ok THEN <<>> ELSE <<"Data collection error: Command failed">>)
              \o (IF p = Startup THEN <<"Initial git data loaded">> ELSE <<>>)
         /\ Goto(p, AfterGit(p), s, r, lastLinearData)
  /\ ChildGone
  /\ UNCHANGED <<lastLinearData, question, answer>>
  /\ UNCHANGED fixedVars
  /\ UNCHANGED eyes

\* a catch block that stores the error in the cache
CollectTimeoutStores(p) ==
  /\ bpc[p] = "collecting"
  /\ blocked = p
  /\ pc # "exited"
  /\ botLog' = <<"Data collection error: ETIMEDOUT">>
  /\ lastSummary' = <<"ETIMEDOUT">>
  /\ lastRawData' = <<"ETIMEDOUT">>
  /\ Goto(p, AfterGit(p), <<"ETIMEDOUT">>, <<"ETIMEDOUT">>, lastLinearData)
  /\ ChildGone
  /\ UNCHANGED <<lastLinearData, question, answer>>
  /\ UNCHANGED fixedVars
  /\ UNCHANGED eyes

\* execSync kills the child after its timeout (120000) and throws
CollectTimeout(p) ==
  /\ bpc[p] = "collecting"
  /\ blocked = p
  /\ pc # "exited"
  /\ botLog' = <<"Data collection error: ETIMEDOUT">>
                 \o (IF p = Startup THEN <<"Initial git data loaded">> ELSE <<>>)
  /\ Goto(p, AfterGit(p), lastSummary, lastRawData, lastLinearData)
  /\ ChildGone
  /\ UNCHANGED <<lastSummary, lastRawData, lastLinearData, question, answer>>
  /\ UNCHANGED fixedVars
  /\ UNCHANGED eyes

\* the prompt is built from the value lastLinearData had before the write
ReadBeforeWrite(old, new) == old

\* line 150 reads lastLinearData after line 68 wrote it
ReadAfterWrite(old, new) == new

\* a handler that replies from the cache without asking the LLM
AfterLinearNoLlm(p) == IF p = Startup THEN "done" ELSE "unreacting"

\* where caller p continues after collectLinearData
AfterLinear(p) == IF p = Startup THEN "done" ELSE "asking"

\* fetchLinearActivity resolves: lines 66-69
LinearReturns(p) ==
  /\ bpc[p] = "linear"
  /\ blocked = NoProc
  /\ \E nodes \in LinearResults :
       LET l == formatLinearData(Categorize(nodes, since))
       IN  /\ lastLinearData' = l
           /\ Goto(p, AfterLinear(p), lastSummary, lastRawData,
                   ReadAfterWrite(lastLinearData, l))
  /\ botLog' = (IF p = Startup THEN <<"Initial Linear data loaded">> ELSE <<>>)
  /\ UNCHANGED <<lastSummary, lastRawData, question, answer>>
  /\ UNCHANGED <<fixedVars, childVars>>
  /\ UNCHANGED eyes

\* fetchLinearActivity throws: lines 70-73
LinearFails(p) ==
  /\ bpc[p] = "linear"
  /\ blocked = NoProc
  /\ \E reply \in LinearFailures :
       botLog' = <<"Linear data collection error: " \o reply.kind>>
                   \o (IF p = Startup THEN <<"Initial Linear data loaded">> ELSE <<>>)
  /\ Goto(p, AfterLinear(p), lastSummary, lastRawData, lastLinearData)
  /\ UNCHANGED <<lastSummary, lastRawData, lastLinearData, question, answer>>
  /\ UNCHANGED <<fixedVars, childVars>>
  /\ UNCHANGED eyes

\* askLLM: execSync of the LLM command returns, fails or is killed
LlmReturns(h) ==
  /\ bpc[h] = "asking"
  /\ blocked = h
  /\ \E reply \in {[kind |-> "exit", code |-> 1, out |-> <<>>], [kind |-> "timeout"]}
                    \cup {[kind |-> "exit", code |-> 0, out |-> o] : o \in LlmOutputs} :
       IF reply.kind = "exit" /\ reply.code = 0
       THEN /\ answer' = [answer EXCEPT ![h] = Trim(reply.out)]
            /\ botLog' = <<>>
       ELSE /\ answer' = [answer EXCEPT ![h] = <<NULL>>]
            /\ botLog' = <<"LLM error: " \o reply.kind>>
  /\ Goto(h, "unreacting", lastSummary, lastRawData, lastLinearData)
  /\ UNCHANGED <<lastSummary, lastRawData, lastLinearData, question>>
  /\ UNCHANGED <<fixedVars, childVars>>
  /\ UNCHANGED eyes

\* `if (answer)`
Answered(h) == answer[h] # <<NULL>> /\ answer[h] # <<>>

\* reactions.remove settled (a rejection is ignored); say is called
ReactionRemoved(h) ==
  /\ bpc[h] = "unreacting"
  /\ blocked = NoProc
  /\ Goto(h, IF Answered(h) THEN "saying_answer" ELSE "saying_sorry",
          lastSummary, lastRawData, lastLinearData)
  /\ answer' = [answer EXCEPT ![h] = <<>>]
  /\ botLog' = <<>>
  /\ UNCHANGED <<lastSummary, lastRawData, lastLinearData, question>>
  /\ UNCHANGED <<fixedVars, childVars>>
  /\ \E ok \in BOOLEAN :
       eyes' = [eyes EXCEPT ![h] = IF ok /\ eyes[h] = "added" THEN "removed"
                                ELSE IF eyes[h] = "added" THEN "stuck" ELSE "never_added"]

\* say settled: the handler returns
SayDone(h) ==
  /\ bpc[h] \in {"saying_help", "saying_answer", "saying_sorry"}
  /\ blocked = NoProc
  /\ Goto(h, "done", lastSummary, lastRawData, lastLinearData)
  /\ question' = [question EXCEPT ![h] = ""]
  /\ botLog' = <<>>
  /\ UNCHANGED <<lastSummary, lastRawData, lastLinearData, answer>>
  /\ UNCHANGED <<fixedVars, childVars>>
  /\ UNCHANGED eyes

\* the steps of the git-summary.js child of the bot
ChildStep ==
  \/ NoActivity
  \/ StartStage1
  \/ SkipStage1
  \/ Stage1Respond
  \/ InvokeStage2
  \/ Stage2Exit
  \/ Stage2Timeout

\* the steps of the handler of mention h
HandlerStep(h) ==
  \/ HandlerStart(h)
  \/ ReactionAdded(h)
  \/ CollectReturns(h)
  \/ CollectTimeout(h)
  \/ LinearReturns(h)
  \/ LinearFails(h)
  \/ LlmReturns(h)
  \/ ReactionRemoved(h)
  \/ SayDone(h)

InitBot ==
  /\ pc = "idle"
  /\ since = <<"1", ".", "5", "Z">>
  /\ extraRepos = <<>>
  /\ allRepos = <<>>
  /\ ri = 0
  /\ branches = <<>>
  /\ bi = 0
  /\ seenSHAs = {}
  /\ data = EmptyData
  /\ quota = RunRecords
  /\ listed = {}
  /\ failed = {}
  /\ missed = {}
  /\ script = "git"
  /\ dryRun = TRUE
  /\ webhookOk = TRUE
  /\ placeholder = FALSE
  /\ hasKey \in BOOLEAN
  /\ linearCfg \in {"ok", "nokey"}
  /\ linearData = EmptyLinear
  /\ PipeIdle
  /\ CtxIdle
  /\ exitCode = -1
  /\ output = <<>>
  /\ lastSummary = <<>>
  /\ lastRawData = <<>>
  /\ lastLinearData = <<>>
  /\ bpc = [p \in Procs |-> IF p = Startup THEN "start" ELSE "waiting"]
  /\ question = [h \in Mentions |-> ""]
  /\ botPrompt = [h \in Mentions |-> <<>>]
  /\ answer = [h \in Mentions |-> <<>>]
  /\ fetching = {}
  /\ blocked = NoProc
  /\ botLog = <<>>
  /\ eyes = [h \in Mentions |-> "none"]

NextBot ==
  \/ StartupCollect
  \/ CollectReturns(Startup)
  \/ CollectTimeout(Startup)
  \/ LinearReturns(Startup)
  \/ LinearFails(Startup)
  \/ \E h \in Mentions : HandlerStart(h)
  \/ \E h \in Mentions : ReactionAdded(h)
  \/ \E h \in Mentions : CollectReturns(h)
  \/ \E h \in Mentions : CollectTimeout(h)
  \/ \E h \in Mentions : LinearReturns(h)
  \/ \E h \in Mentions : LinearFails(h)
  \/ \E h \in Mentions : LlmReturns(h)
  \/ \E h \in Mentions : ReactionRemoved(h)
  \/ \E h \in Mentions : SayDone(h)
  \/ NoActivity
  \/ StartStage1
  \/ SkipStage1
  \/ Stage1Respond
  \/ InvokeStage2
  \/ Stage2Exit
  \/ Stage2Timeout

SpecBot == InitBot /\ [][NextBot]_vars

\* the steps of the handler of mention h that end within a bounded time
\* once they can be taken: Slack Web API calls (reactions.add,
\* reactions.remove, say) and the two execSync calls (timeout 120000). The
\* arrival of a mention is the environment's step, and the fetch of
\* fetchLinearActivity carries no timeout (linear-utils.js:46-53).
BoundedHandlerStep(h) ==
  \/ ReactionAdded(h)
  \/ CollectReturns(h)
  \/ CollectTimeout(h)
  \/ LlmReturns(h)
  \/ ReactionRemoved(h)
  \/ SayDone(h)

\* the bounded steps of the startup routine and of the child process
BoundedBotStep ==
  \/ StartupCollect
  \/ CollectReturns(Startup)
  \/ CollectTimeout(Startup)
  \/ NoActivity
  \/ StartStage1
  \/ SkipStage1
  \/ InvokeStage2
  \/ Stage2Exit
  \/ Stage2Timeout

SpecBotFair ==
  /\ InitBot
  /\ [][NextBot]_vars
  /\ WF_vars(BoundedBotStep)
  /\ \A h \in Mentions : WF_vars(BoundedHandlerStep(h))

(* ------------- the whole system: a scheduled run or the bot ------------ *)
InitSystem == Init \/ InitBot

NextSystem ==
  \/ bpc = <<>> /\ Next
  \/ bpc # <<>> /\ NextBot

SpecSystem == InitSystem /\ [][NextSystem]_vars

(* ----------------------- properties of the scan ------------------------ *)
ListedOf(kind) == {l \in listed : l.kind = kind}

\* the branch listings that returned SHA s
ShaListings(s) == {<<l.repo, l.listing>> : l \in {x \in ListedOf("commit") : x.rec.sha = s}}

CommitsWithSha(s) ==
  {i \in DOMAIN data.commits :
     data.commits[i].url = "https://github.com/" \o data.commits[i].fullRepo \o "/commit/" \o s}

ListedShas == {l.rec.sha : l \in ListedOf("commit")} \ {""}

\* C1: a SHA returned by two or more different branch listings of the run
\* has exactly one commit in the returned snapshot.
C1_ShaOnce ==
  pc = "collected" =>
    \A s \in ListedShas :
      Cardinality(ShaListings(s)) >= 2 => Cardinality(CommitsWithSha(s)) = 1

C1_Witness ==
  /\ pc = "collected"
  /\ \E s \in ListedShas :
       /\ Cardinality(ShaListings(s)) >= 2
       /\ Cardinality(CommitsWithSha(s)) = 1
       /\ Len(data.commits) = 1

\* the (repo, author, target item number, creation timestamp) of a raw comment
RawCommentTuple(l) ==
  <<RepoName(l.repo), OrElse(l.rec.user, "unknown"), OrElse(l.rec.num, "?"), l.rec.created_at>>

CommentsWithTuple(t) ==
  {i \in DOMAIN data.comments :
     <<data.comments[i].repo, data.comments[i].author,
       data.comments[i].issueNumber, data.comments[i].createdAt>> = t}

InBothCommentListings(a, b) ==
  /\ a.kind = "comment" /\ a.listing = "issues/comments"
  /\ b.kind = "comment" /\ b.listing = "pulls/comments"
  /\ a.repo = b.repo
  /\ RawCommentTuple(a) = RawCommentTuple(b)

\* C2: a comment tuple returned by both the issue-comments listing and the
\* review-comments listing has exactly one comment in the returned snapshot.
C2_CommentOnce ==
  pc = "collected" =>
    \A a, b \in listed :
      InBothCommentListings(a, b) => Cardinality(CommentsWithTuple(RawCommentTuple(a))) = 1

C2_Witness ==
  /\ pc = "collected"
  /\ \E a, b \in listed :
       /\ InBothCommentListings(a, b)
       /\ Cardinality(CommentsWithTuple(RawCommentTuple(a))) = 1

\* the events the listings returned, with the time each became true
ListedReviews ==
  UNION {{[kind |-> "review", repo |-> l.repo, pr |-> l.rec, rec |-> l.rec.reviews[i]] :
            i \in DOMAIN l.rec.reviews} : l \in ListedOf("pr")}

WindowEvents ==
  {[kind |-> "commit", time |-> l.rec.date, src |-> l] :
     l \in {x \in ListedOf("commit") : x.rec.sha # ""}}
  \cup {[kind |-> "review", time |-> l.rec.submittedAt, src |-> l] :
     l \in {x \in ListedReviews : x.rec.state # "PENDING"}}
  \cup {[kind |-> "comment", time |-> l.rec.created_at, src |-> l] : l \in ListedOf("comment")}
  \cup {[kind |-> "issue", time |-> l.rec.created_at, src |-> l] :
     l \in {x \in ListedOf("issue") : ~x.rec.pull_request}}
  \cup {[kind |-> "release", time |-> l.rec.published_at, src |-> l] :
     l \in {x \in ListedOf("release") : x.rec.published_at # NoTime}}
  \cup {[kind |-> "event", time |-> l.rec.created_at, src |-> l] :
     l \in {x \in ListedOf("event") : IsBranchEvent(x.rec) \/ x.rec.type = "MemberEvent"}}

InSnapshot(e) ==
  LET l == e.src IN
  CASE e.kind = "commit" -> CommitsWithSha(l.rec.sha) # {}
    [] e.kind = "review" -> ReviewRecord(l.repo, l.pr, l.rec) \in Range(data.reviews)
    [] e.kind = "comment" -> CommentsWithTuple(RawCommentTuple(l)) # {}
    [] e.kind = "issue" -> IssueRecord(l.repo, l.rec) \in Range(data.issues)
    [] e.kind = "release" -> ReleaseRecord(l.repo, l.rec) \in Range(data.releases)
    [] e.kind = "event" ->
         IF IsBranchEvent(l.rec)
         THEN BranchEventRecord(l.rec) \in Range(data.branchEvents)
         ELSE MemberEventRecord(l.rec) \in Range(data.memberEvents)

BeforeWindow(e) == TimeOf(e.time) < TimeOf(since)

\* C3: in the returned snapshot, no event of any kind is older than `since`
\* and every listed event at or after `since` is present.
C3_Window ==
  pc = "collected" =>
    \A e \in WindowEvents :
      /\ BeforeWindow(e) => ~InSnapshot(e)
      /\ ~BeforeWindow(e) => InSnapshot(e)

(* ----------------------- properties of the run ------------------------- *)
\* how the two capabilities behaved in this run
Stage1Result == IF stage1Reply.kind = "ok" THEN Trim(stage1Reply.content) ELSE <<>>

Stage1Degraded ==
  \/ stage1 = "skipped"
  \/ stage1 = "resolved" /\ (Stage1Throws(stage1Reply) \/ Stage1Result = <<>>)

Stage1NonEmpty == stage1 = "resolved" /\ hasKey /\ Stage1Result # <<>>

FormattingSucceeded ==
  llmReply.kind = "exit" /\ llmReply.code = 0 /\ Trim(llmReply.out) # <<>>

FormattingFailed ==
  \/ llmReply.kind = "timeout"
  \/ llmReply.kind = "exit" /\ (llmReply.code # 0 \/ Trim(llmReply.out) = <<>>)

\* the end state of the pipeline, read from the program's variables
EndState ==
  IF stage2 # "resolved" THEN "RUNNING"
  ELSE IF summary = <<>> THEN "FAILED"
  ELSE IF isPreprocessed THEN "STRUCTURED_AND_FORMATTED"
  ELSE "RAW_AND_FORMATTED"

RenderedOfSnapshot ==
  IF script = "git" THEN formatRawData(data) ELSE formatLinearData(linearData)

\* C4: when the structuring stage is absent, empty or failing, the run goes
\* on to the formatting stage, which receives the unchanged rendered text,
\* and the run ends RAW_AND_FORMATTED when formatting succeeds.
C4_Stage1Fallback ==
  Stage1Degraded =>
    /\ pc \in {"stage2", "await_stage2", "await_post", "exited"}
    /\ exitCode = -1 \/ stage2 = "resolved"
    /\ pc = "stage2" => ENABLED InvokeStage2
    /\ pc # "stage2" =>
         /\ stage2 # "none"
         /\ prompt = SlackPrompt(RenderedOfSnapshot, FALSE)
    /\ FormattingSucceeded =>
         /\ EndState = "RAW_AND_FORMATTED"
         /\ dryRun => exitCode = 0

C4_Witness ==
  /\ pc = "exited"
  /\ stage1 = "resolved"
  /\ Stage1Throws(stage1Reply)
  /\ FormattingSucceeded
  /\ EndState = "RAW_AND_FORMATTED"
  /\ Contains(prompt, RenderedOfSnapshot)

\* C5: when the formatting stage fails, times out or returns nothing, the
\* run ends FAILED with a non-zero exit code and no delivery POST was made.
C5_FormattingFatal ==
  FormattingFailed =>
    /\ pc = "exited"
    /\ exitCode = 1
    /\ posts = 0
    /\ postReply = NoReply
    /\ EndState = "FAILED"

C5_Witness ==
  /\ FormattingFailed
  /\ llmReply.kind = "exit"
  /\ llmReply.code = 0
  /\ ~dryRun
  /\ pc = "exited"
  /\ exitCode = 1
  /\ posts = 0

\* C6 as stated: once the structuring stage returned a non-empty string the
\* run ends STRUCTURED_AND_FORMATTED, and the formatting prompt contains the
\* structured text and not the rendered text.
C6_AsStated ==
  (pc = "exited" /\ Stage1NonEmpty) =>
    /\ EndState = "STRUCTURED_AND_FORMATTED"
    /\ Contains(prompt, Stage1Result)
    /\ ~Contains(prompt, RenderedOfSnapshot)

\* C6: once the structuring stage returned a non-empty string, the prompt of
\* the formatting stage is built from the structured text under the
\* pre-organized label, the rendered text occurring in it only where the
\* structured text repeats it; the run ends STRUCTURED_AND_FORMATTED when
\* formatting succeeds.
C6_Structured ==
  (Stage1NonEmpty /\ stage2 # "none") =>
    /\ prompt = SlackPrompt(Stage1Result, TRUE)
    /\ Contains(prompt, RenderedOfSnapshot) => Contains(Stage1Result, RenderedOfSnapshot)
    /\ FormattingSucceeded => EndState = "STRUCTURED_AND_FORMATTED"

C6_Witness ==
  /\ pc = "exited"
  /\ Stage1NonEmpty
  /\ FormattingSucceeded
  /\ EndState = "STRUCTURED_AND_FORMATTED"
  /\ Contains(prompt, Stage1Result)
  /\ ~Contains(prompt, RenderedOfSnapshot)

SnapshotEmpty ==
  IF script = "git"
  THEN \A kind \in DOMAIN data : data[kind] = <<>>
  ELSE \A kind \in DOMAIN linearData : linearData[kind] = <<>>

NoActivityLogs == {"No activity found. Skipping summary.", "No Linear activity found. Skipping summary."}

\* C7: a run whose snapshot is empty exits with code 0 and the "no activity"
\* message without calling the structuring stage, the formatting stage or
\* the webhook, and an exited run takes no further step.
C7_NoActivity ==
  [][ /\ pc # "exited"
      /\ (pc = "collected" /\ SnapshotEmpty) =>
           /\ pc' = "exited"
           /\ exitCode' = 0
           /\ output'[Len(output')] \in NoActivityLogs
           /\ stage1' = "none"
           /\ stage2' = "none"
           /\ prompt' = <<>>
           /\ posts' = 0 ]_vars

C7_Witness ==
  /\ pc = "exited"
  /\ SnapshotEmpty
  /\ exitCode = 0
  /\ output # <<>>
  /\ output[Len(output)] \in NoActivityLogs
  /\ stage1 = "none"
  /\ stage2 = "none"
  /\ posts = 0

\* C8: a live run whose delivery POST is answered with a non-2xx status ends
\* with a non-zero exit code, an outcome other than "no activity", and the
\* generated report in its output.
C8_DeliveryFailure ==
  (pc = "exited" /\ postReply.kind = "status" /\ postReply.status # 200) =>
    /\ exitCode = 1
    /\ output[Len(output)] \notin NoActivityLogs
    /\ Contains(output, summary)

\* C9: the formatting stage is invoked only after the structuring call has
\* returned, thrown or been skipped.
C9_Sequential == stage2 # "none" => stage1 \in {"resolved", "skipped"}

C9_Witness ==
  /\ stage2 = "running"
  /\ stage1 = "resolved"
  /\ stage1Reply # NoReply

\* C10: a run that started the structuring call reaches an end state of the
\* pipeline even if the capability never answers.
C10_Bounded == (stage1 = "pending") ~> (stage2 = "resolved")

(* ----------------------- properties of the bot ------------------------- *)
Collecting == {p \in Procs : bpc[p] = "collecting"}

\* C11: among the handlers of the mentions, at most one population is
\* outstanding at any time, for the git cache and for the Linear cache.
C11_OneFetch ==
  /\ Cardinality(Collecting \cap Mentions) <= 1
  /\ Cardinality(fetching \cap Mentions) <= 1

\* the handler of mention g has a step to take once the event loop runs it
Runnable(g) ==
  bpc[g] \in {"waiting", "reacting", "linear", "unreacting",
              "saying_help", "saying_answer", "saying_sorry"}

\* C12: while the handler of one mention populates the cache or waits for
\* the answer of the formatting capability, the handler of another mention
\* can take its next step.
C12_NonBlocking ==
  \A h, g \in Mentions :
    (h # g /\ bpc[h] \in {"collecting", "linear", "asking"} /\ Runnable(g)) =>
      ENABLED HandlerStep(g)

\* C13: the prompt a handler pipes to the formatting capability is built from
\* the three cache fields as they stand together in one state, which is still
\* the state of the cache while the call runs.
C13_ConsistentRead ==
  \A h \in Mentions :
    bpc[h] = "asking" =>
      botPrompt[h] = BotPrompt(lastSummary, lastRawData, lastLinearData, question[h])

C13_Witness ==
  \E h, g \in Mentions :
    /\ bpc[h] = "asking"
    /\ bpc[g] = "linear"
    /\ lastLinearData # <<>>
    /\ lastSummary # <<>>
    /\ Contains(botPrompt[h], lastLinearData)
    /\ Contains(botPrompt[h], lastSummary)

\* collectRecentData of caller p returns in this step without an error
PopulationSucceeds(p) ==
  /\ bpc[p] = "collecting"
  /\ pc = "exited"
  /\ exitCode = 0
  /\ bpc'[p] # "collecting"

\* C14: after a population that ended without error, lastSummary and
\* lastRawData hold what the output of that run holds (nothing where the run
\* printed no such section) and no value of an earlier run.
C14_Wholesale ==
  [][ \A p \in Procs :
        PopulationSucceeds(p) =>
          /\ lastSummary' = ExtractSummary(output, <<>>)
          /\ lastRawData' = ExtractRaw(output, data, <<>>) ]_vars

C14_Witness ==
  /\ \E h \in Mentions : bpc[h] = "asking" /\ Contains(botPrompt[h], lastSummary)
  /\ lastSummary = <<"*Summary*", "- item">>
  /\ lastRawData # <<>>

\* C15: the prompt built right after a successful population contains the
\* rendered text of the collected snapshot, the report text and the question.
C15_PromptGrounding ==
  [][ \A h \in Mentions :
        (PopulationSucceeds(h) /\ bpc'[h] = "asking" /\ summary # <<>>) =>
          /\ Contains(botPrompt'[h], formatRawData(data))
          /\ Contains(botPrompt'[h], summary)
          /\ Contains(botPrompt'[h], <<"USER QUESTION: " \o question[h]>>) ]_vars

\* C16 as stated: nothing the bot does invokes the structuring capability.
C16_AsStated == stage1 \in {"none", "skipped"}

\* C16: the structuring capability is invoked only by the git-summary.js
\* child of a population, started while the git cache was empty and run with
\* OPENROUTER_API_KEY set; the call that answers a question goes to the
\* formatting capability with no structuring call.
C16_Stage1OnlyInPopulation ==
  /\ stage1 \notin {"none", "skipped"} =>
       /\ \E p \in Procs : bpc[p] = "collecting" /\ blocked = p
       /\ hasKey
       /\ lastRawData = <<>>
  /\ \A h \in Mentions : bpc[h] = "asking" => (stage1 = "none" /\ pc = "idle")

C16_Witness ==
  /\ stage1 = "pending"
  /\ \E h \in Mentions : bpc[h] = "collecting"
  /\ hasKey


(* ------------------------------- dry runs ------------------------------ *)
\* the run reached the point where it holds a final text
HasFinalText ==
  IF script = "context" THEN pc = "exited"
  ELSE pc = "exited" /\ stage2 = "resolved" /\ llmReply.kind = "exit" /\ llmReply.code = 0
       /\ summary # <<>>

C18_AtMostOnce ==
  /\ posts <= 1
  /\ pc = "await_post" => posts = 1
  /\ postReply # NoReply => pc = "exited" /\ posts = 1

C18_Witness ==
  /\ postReply.kind = "status"
  /\ postReply.status # 200
  /\ posts = 1
  /\ pc = "exited"
  /\ exitCode = 1


(* --------------------------- source failures --------------------------- *)
\* the positions at which a listing of the repository being scanned is made
RepoListings == {"commits", "prs", "comments", "reviewComments", "issues", "releases"}

\* the listings that fail in this step
NewFailures == failed' \ failed

\* C19: in the git run a failed listing counts as an empty one and never
\* aborts the run: the step of a failed listing adds nothing to the
\* snapshot, the run goes on, and the remaining listings are still made;
\* unless the failed listing was the last of its repository (releases) the
\* scan stays in that repository and goes to one of its remaining listings.
C19_FailureIsEmpty ==
  [][\A f \in NewFailures :
       /\ exitCode' = -1
       /\ f.listing # "repos" => data' = [data EXCEPT !.comments = data'.comments]
       /\ f.listing = "repos" => pc' \in {"branches", "events"}
       /\ f.listing = "events" => pc' = "collected"
       /\ f.listing = "releases" => pc' = AfterRepo
       /\ f.listing \notin {"repos", "events", "releases"} =>
            ri' = ri /\ pc' \in RepoListings]_vars

\* the lines the step of a listing writes when nothing fails
ProgressLines(listing) ==
  CASE listing = "repos" -> 1
    [] listing = "branches" -> 2
    [] listing = "events" -> 2
    [] OTHER -> 0

\* C20: every error caught in a run produces a log entry; for the connector:
\* the step in which a listing fails writes a line to the output beyond the
\* progress lines that step writes in any case.
C20_FailureLogged ==
  [][\A f \in NewFailures : Len(output') - Len(output) > ProgressLines(f.listing)]_vars


(* ------------------------- ticket-tracker failures --------------------- *)
TrackerFailed == [repo |-> <<"linear">>, listing |-> "issues"] \in failed

\* the step in which collectLinearData of caller p catches an error
BotLinearFailure(p) ==
  /\ bpc # <<>>
  /\ bpc[p] = "linear"
  /\ bpc'[p] # "linear"
  /\ botLog' # <<>>
  /\ botLog'[1] \in {"Linear data collection error: " \o f.kind : f \in LinearFailures}

\* C21: a failed ticket-tracker fetch is fatal in linear-summary.js (the run
\* exits non-zero, no capability was called, nothing was delivered) and
\* non-fatal elsewhere: build-context.js goes on and a live run still writes
\* its file, and a mention handler of the bot goes on to ask the LLM with a
\* prompt built from the Linear cache, which the failure leaves unchanged.
C21_TrackerFailure ==
  /\ [](TrackerFailed /\ script = "linear" =>
          /\ pc = "exited" /\ exitCode = 1
          /\ stage1 = "none" /\ stage2 = "none"
          /\ posts = 0 /\ postReply = NoReply)
  /\ [](TrackerFailed /\ script = "context" =>
          /\ exitCode \in {-1, 0} \/ writes = 1
          /\ pc = "exited" /\ ~dryRun => writes = 1)
  /\ [][\A p \in Procs : BotLinearFailure(p) =>
          /\ lastLinearData' = lastLinearData
          /\ p \in Mentions =>
               /\ bpc'[p] = "asking"
               /\ botPrompt'[p] = BotPrompt(lastSummary, lastRawData, lastLinearData, question[p])]_vars

C21_Witness ==
  /\ TrackerFailed
  /\ script = "linear"
  /\ ~dryRun
  /\ pc = "exited"


(* ------------------------------ pagination ----------------------------- *)
\* the times at which a raw record is activity
RawTimes(m) ==
  CASE m.kind = "commit" -> IF m.rec.sha = "" THEN {} ELSE {m.rec.date}
    [] m.kind = "pr" -> {m.rec.createdAt, m.rec.mergedAt, m.rec.closedAt} \ {NoTime}
    [] m.kind = "comment" -> {m.rec.created_at}
    [] m.kind = "issue" -> IF m.rec.pull_request THEN {} ELSE {m.rec.created_at}
    [] m.kind = "release" -> {m.rec.published_at} \ {NoTime}
    [] m.kind = "event" ->
         IF IsBranchEvent(m.rec) \/ m.rec.type = "MemberEvent" THEN {m.rec.created_at} ELSE {}
    [] OTHER -> {m.rec.createdAt}

RawInWindow(m) == \E t \in RawTimes(m) : TimeOf(t) >= TimeOf(since)

\* C22: each connector pages exhaustively: no in-window record that the
\* origin holds for a listing of the run stays behind the page that the
\* listing returned.
C22_Exhaustive == \A m \in missed : ~RawInWindow(m)


(* ---------------------------- pull requests ---------------------------- *)
\* one of the lifecycle timestamps of the pull request is at or after since
LifecycleInWindow(pr) ==
  \E t \in {pr.createdAt, pr.mergedAt, pr.closedAt} \ {NoTime} : TimeOf(t) >= TimeOf(since)

\* the scan kept the listed pull request l
PrKept(l) ==
  IF script = "sh" THEN ShPrLine(l.repo, l.rec) \in Range(data.prs)
  ELSE PrRecord(l.repo, l.rec) \in Range(data.prs)

\* C23: a pull request that the listing returned is among the collected pull
\* requests if and only if one of createdAt, mergedAt, closedAt is at or
\* after since; its last-updated timestamp plays no part.
C23_PrLifecycle ==
  pc = "collected" => \A l \in ListedOf("pr") : PrKept(l) <=> LifecycleInWindow(l.rec)


(* --------------------------- the prompt label -------------------------- *)
OrganizedLabels == {"ORGANIZED ACTIVITY DATA:", "ORGANIZED LINEAR DATA:"}
RawLabels == {"RAW ACTIVITY DATA:", "RAW LINEAR DATA:"}

\* the lines of the prompt between its label and FORMAT RULES:
PromptText == SubSeq(prompt, 4, Len(prompt) - 1)

\* C24: the formatting prompt carries exactly one of the two labels, in its
\* heading and over its data block alike, and the label tells the path:
\* ORGANIZED / pre-organized exactly when the data block is the non-empty
\* output of stage 1, RAW / raw exactly when stage 1 was skipped, failed or
\* returned nothing and the data block is the rendered text unchanged.
C24_Label ==
  stage2 # "none" =>
    /\ prompt[3] \in OrganizedLabels \cup RawLabels
    /\ prompt[3] \in OrganizedLabels <=> Stage1NonEmpty /\ PromptText = Stage1Result
    /\ prompt[3] \in RawLabels <=> Stage1Degraded /\ PromptText = RenderedOfSnapshot
    /\ prompt[3] \in OrganizedLabels <=> prompt[1] = PromptHead(TRUE)
    /\ prompt[3] \in RawLabels <=> prompt[1] = PromptHead(FALSE)
    /\ Cardinality({i \in DOMAIN prompt : prompt[i] \in OrganizedLabels \cup RawLabels}) = 1

C24_Witness ==
  /\ stage2 # "none"
  /\ Stage1NonEmpty
  /\ Stage1Result # RenderedOfSnapshot
  /\ prompt[3] = "ORGANIZED LINEAR DATA:"


(* -------------------------- rendered sections -------------------------- *)
\* the headers formatRawData pushes, with the kind each announces
GitSections ==
  << [header |-> "COMMITS:", events |-> data.commits],
     [header |-> "\nPULL REQUESTS:", events |-> data.prs],
     [header |-> "\nPR REVIEWS:", events |-> data.reviews],
     [header |-> "\nCOMMENTS:", events |-> data.comments],
     [header |-> "\nISSUES:", events |-> data.issues],
     [header |-> "\nRELEASES:", events |-> data.releases],
     [header |-> "\nBRANCH EVENTS:", events |-> data.branchEvents],
     [header |-> "\nMEMBERSHIP CHANGES:", events |-> data.memberEvents] >>

LinearIssueSections ==
  << [header |-> "=== NEW ISSUES ===", events |-> linearData.newIssues],
     [header |-> "=== UPDATED ISSUES ===", events |-> linearData.activeIssues] >>

LinearCommentSection ==
  [header |-> "=== RECENT COMMENTS ===", events |-> linearData.recentComments]

RenderSections ==
  IF script = "git" THEN GitSections ELSE LinearIssueSections \o <<LinearCommentSection>>

RenderHeaders == {RenderSections[i].header : i \in DOMAIN RenderSections}

\* the entries of the text t that follow the header at position i, up to the
\* next header or the end of the text
SectionBody(t, i) ==
  LET later == {j \in DOMAIN t : j > i /\ t[j] \in RenderHeaders}
      stop == IF later = {} THEN Len(t) + 1
              ELSE CHOOSE j \in later : \A j2 \in later : j <= j2
  IN  SubSeq(t, i + 1, stop - 1)

HeaderAt(t, h) == {i \in DOMAIN t : t[i] = h}

\* the header of the section is pushed exactly when its kind holds an event
HeaderIffEvents(t, sec) ==
  /\ Cardinality(HeaderAt(t, sec.header)) = (IF Len(sec.events) > 0 THEN 1 ELSE 0)

\* the section's header is followed by exactly one entry per event
OneLinePerEvent(t, sec) ==
  \A i \in HeaderAt(t, sec.header) : Len(SectionBody(t, i)) = Len(sec.events)

\* ... by one entry per event and one empty line that closes the section
OneLinePerEventClosed(t, sec) ==
  \A i \in HeaderAt(t, sec.header) :
    LET body == SectionBody(t, i)
    IN  /\ Len(body) = Len(sec.events) + 1
        /\ body[Len(body)] = ""
        /\ \A j \in 1..Len(sec.events) : body[j] # ""

\* ... by one entry and one empty line per event
OneLineAndBlankPerEvent(t, sec) ==
  \A i \in HeaderAt(t, sec.header) :
    LET body == SectionBody(t, i)
    IN  /\ Len(body) = 2 * Len(sec.events)
        /\ \A j \in 1..Len(sec.events) : body[2 * j - 1] # "" /\ body[2 * j] = ""

\* C25 as stated: in the text of either renderer a header is present exactly
\* when its kind is non-empty, and it is followed by exactly one line per
\* event of the kind.
C25_OneLinePerEvent ==
  pc = "rendered" =>
    \A s \in DOMAIN RenderSections :
      /\ HeaderIffEvents(rawData, RenderSections[s])
      /\ OneLinePerEvent(rawData, RenderSections[s])

\* C25, amended: a header is present exactly when its kind is non-empty (no
\* empty section); in formatRawData it is followed by exactly one line per
\* event; in formatLinearData the two issue headers are followed by one line
\* per issue and one closing empty line, and the comments header by one line
\* and one empty line per comment.
C25_Sections ==
  pc = "rendered" =>
    /\ \A s \in DOMAIN RenderSections : HeaderIffEvents(rawData, RenderSections[s])
    /\ script = "git" =>
         \A s \in DOMAIN GitSections : OneLinePerEvent(rawData, GitSections[s])
    /\ script = "linear" =>
         /\ \A s \in DOMAIN LinearIssueSections :
              OneLinePerEventClosed(rawData, LinearIssueSections[s])
         /\ OneLineAndBlankPerEvent(rawData, LinearCommentSection)

C25_Witness ==
  /\ pc = "rendered"
  /\ script = "linear"
  /\ linearData.newIssues = <<>>
  /\ Len(linearData.activeIssues) = 1
  /\ Len(linearData.recentComments) = 2


(* ----------------------------- author lookup --------------------------- *)
\* the characters of the GitHub identities and of the keys of CONFIG.authorMap
IdentityChars(a) ==
  CASE a = "alice" -> <<"a", "l", "i", "c", "e">>
    [] a = "alice-dev" -> <<"a", "l", "i", "c", "e", "-", "d", "e", "v">>
    [] a = "bob" -> <<"b", "o", "b">>
    [] OTHER -> <<>>

\* the display names of the entries of CONFIG.authorMap whose key is a
\* case-insensitive substring of the identity or contains it as one
FuzzyNames(a) ==
  {authorMap[k] : k \in {k \in DOMAIN authorMap :
     \/ includes(toLowerCase(IdentityChars(a)), toLowerCase(IdentityChars(k)))
     \/ includes(toLowerCase(IdentityChars(k)), toLowerCase(IdentityChars(a)))}}

\* the same for CONFIG.linearAuthorMap
FuzzyLinearNames(name) ==
  {linearAuthorMap[e].val : e \in {e \in DOMAIN linearAuthorMap :
     \/ includes(toLowerCase(name), toLowerCase(linearAuthorMap[e].key))
     \/ includes(toLowerCase(linearAuthorMap[e].key), toLowerCase(name))}}

\* the line of a commit whose author is shown as `name`
CommitLineAs(c, name) ==
  "[" \o c.repo \o "] " \o name \o " (" \o c.branch \o "): " \o c.message \o " | " \o c.url

\* the line of a ticket whose assignee is shown as `name`
LinearIssueLineAs(issue, name) ==
  issue.identifier \o ": " \o issue.title \o " - " \o issue.state \o " - "
    \o name \o " [" \o issue.priorityLabel \o "]"

\* the ticket renderer: an assignee is shown under the display name
\* of an entry that matches it as a case-insensitive substring in either
\* direction, and under its raw name when no entry matches.
LinearFuzzyLookup ==
  (pc = "rendered" /\ script = "linear" /\ linearData.newIssues # <<>>) =>
    \A i \in DOMAIN linearData.newIssues :
      LET issue == linearData.newIssues[i]
          names == FuzzyLinearNames(issue.assignee)
      IN  issue.assignee # NoName =>
            \E name \in (IF names = {} THEN {StrOf(issue.assignee)} ELSE names) :
              rawData[i + 1] = LinearIssueLineAs(issue, name)

\* C26 for the git renderer: the author of a commit is shown under the
\* display name of an entry of the author map whose key matches the identity
\* as a case-insensitive substring in either direction, and under the raw
\* identity when no entry matches.
C26_FuzzyLookup ==
  (pc = "rendered" /\ script = "git" /\ data.commits # <<>>) =>
    \A i \in DOMAIN data.commits :
      LET c == data.commits[i]
          names == FuzzyNames(c.author)
      IN  \E name \in (IF names = {} THEN {c.author} ELSE names) :
            rawData[i + 1] = CommitLineAs(c, name)


(* --------------------- deduplication and ordering ---------------------- *)
IsPrefix(a, b) == Len(a) <= Len(b) /\ SubSeq(b, 1, Len(a)) = a

\* the positions of cs that hold the first record of their key
FirstOfKey(cs) ==
  {i \in DOMAIN cs : \A j \in DOMAIN cs : j < i => CommentKey(cs[j]) # CommentKey(cs[i])}

\* the records of cs at the positions of idx, in the order of cs
AtPositions(cs, idx) ==
  [k \in 1..Cardinality(idx) |->
     cs[CHOOSE i \in idx : Cardinality({j \in idx : j <= i}) = k]]

\* the step appends to the commits one record per SHA seen for the first
\* time, each under the branch whose listing is being read
AppendsNewShas ==
  LET new == SubSeq(data'.commits, Len(data.commits) + 1, Len(data'.commits))
      shas == seenSHAs' \ seenSHAs
  IN  /\ seenSHAs \subseteq seenSHAs'
      /\ Len(new) = Cardinality(shas)
      /\ {new[i].url : i \in DOMAIN new} = {CommitUrl(allRepos[ri], sha) : sha \in shas}
      /\ \A i \in DOMAIN new : new[i].branch = branches[bi]

\* C27: every step of the scan leaves the commits collected so far in place
\* and adds one record per SHA not seen before, under the branch of the
\* listing that returned it first; the events of the other kinds keep their
\* place too, later ones being added behind them; and the deduplication of
\* the comments keeps, in their order, exactly the first record of each key.
C27_FirstSeenOrder ==
  [][ /\ IsPrefix(data.commits, data'.commits)
      /\ AppendsNewShas
      /\ \A kind \in {"prs", "reviews", "issues", "releases", "branchEvents", "memberEvents"} :
           IsPrefix(data[kind], data'[kind])
      /\ pc # "events" => IsPrefix(data.comments, data'.comments)
      /\ pc = "events" => data'.comments = AtPositions(data.comments, FirstOfKey(data.comments))
    ]_vars

\* the two comment listings returned records of one key, and one survived
C27_Witness ==
  /\ pc = "collected"
  /\ Len(data.comments) = 1
  /\ \E a \in listed : \E b \in listed :
       /\ a.kind = "comment" /\ b.kind = "comment"
       /\ a.listing = "issues/comments" /\ b.listing # a.listing
       /\ a.repo = b.repo
       /\ CommentKey(CommentRecord(a.repo, a.rec, FALSE)) = CommentKey(CommentRecord(b.repo, b.rec, TRUE))
       /\ data.comments[1] = CommentRecord(a.repo, a.rec, FALSE)


(* ------------------- the static section of context.md ------------------ *)
MarkerCount(content) == Cardinality({i \in DOMAIN content : content[i] = MARKER})

\* the text of the file before its first marker; the whole text without one
BeforeMarker(content) ==
  IF MarkerCount(content) = 0 THEN content
  ELSE SubSeq(content, 1,
         (CHOOSE i \in DOMAIN content :
            content[i] = MARKER /\ \A j \in DOMAIN content : content[j] = MARKER => i <= j) - 1)

\* the step ends an execution that wrote context.md
WroteContext == pc = "ctx_write" /\ ~dryRun /\ exitCode' = 0

\* C28: no step of any sequence of executions of build-context.js changes the
\* text before the marker, trailing whitespace aside (without a marker: the
\* whole text); an execution that wrote the file leaves exactly one marker in
\* it, and a file with one marker keeps exactly one.
C28_StaticPreserved ==
  [][ /\ TrimEnd(BeforeMarker(contextFile')) = TrimEnd(BeforeMarker(contextFile))
      /\ WroteContext => MarkerCount(contextFile') = 1
      /\ MarkerCount(contextFile) = 1 => MarkerCount(contextFile') = 1
    ]_vars

\* the second writing execution has ended, on the file the first one wrote
C28_Witness ==
  /\ script = "context"
  /\ writes = MaxRuns
  /\ exitCode = 0
  /\ MarkerCount(contextFile) = 1
  /\ TrimEnd(BeforeMarker(contextFile)) = <<"# Project">>
  /\ Len(contextFile) > 6


Saying == {"saying_help", "saying_answer", "saying_sorry"}

\* what a step of the handler of mention h may do to the replies
ReplyStep(h) ==
  /\ (bpc[h] = "waiting" /\ bpc'[h] # "waiting") =>
       /\ question'[h] = "" <=> bpc'[h] = "saying_help"
       /\ question'[h] = "" =>
            /\ pc' = pc
            /\ blocked' = blocked
            /\ fetching' = fetching
            /\ botPrompt' = botPrompt
  /\ (bpc[h] # "saying_answer" /\ bpc'[h] = "saying_answer") =>
       bpc[h] = "unreacting" /\ Answered(h)
  /\ (bpc[h] # "saying_sorry" /\ bpc'[h] = "saying_sorry") =>
       bpc[h] = "unreacting" /\ ~Answered(h)
  /\ (bpc[h] # "saying_help" /\ bpc'[h] = "saying_help") => bpc[h] = "waiting"
  /\ (bpc[h] \in Saying /\ bpc'[h] # bpc[h]) => bpc'[h] = "done"
  /\ (bpc[h] # "done" /\ bpc'[h] = "done") => bpc[h] \in Saying
  /\ bpc[h] = "done" => bpc'[h] = "done"

\* the replies are the right ones and no mention gets a second one
RepliesRight == [][\A h \in Mentions : ReplyStep(h)]_vars

\* C30: every mention the bot received is answered by exactly one reply: the
\* handler reaches its end, through exactly one `say`: the prompt for a
\* question when the question is empty (no reaction, collection or LLM call
\* before it), the answer when askLLM returned text, the apology otherwise.
C30_OneReply ==
  /\ \A h \in Mentions : (bpc[h] # "waiting") ~> (bpc[h] = "done")
  /\ [][\A h \in Mentions : ReplyStep(h)]_vars


(* ----------------------- the order of a handler's steps ---------------- *)
\* what a step of the handler of mention h may do to its position
OrderStep(h) ==
  LET moved == bpc'[h] # bpc[h] IN
  /\ (moved /\ bpc'[h] = "reacting") => bpc[h] = "waiting" /\ question'[h] # ""
  /\ (moved /\ bpc[h] = "reacting") =>
       /\ eyes'[h] \in {"added", "add_failed"}
       /\ bpc'[h] = "collecting" <=> lastRawData = <<>>
       /\ bpc'[h] \in {"collecting", "linear", "asking"}
  /\ (moved /\ bpc'[h] = "collecting") => bpc[h] = "reacting"
  /\ (moved /\ bpc'[h] = "linear") =>
       bpc[h] \in {"reacting", "collecting"} /\ lastLinearData = <<>>
  /\ (moved /\ bpc'[h] = "asking") => bpc[h] \in {"reacting", "collecting", "linear"}
  /\ (moved /\ bpc[h] = "asking") => bpc'[h] = "unreacting"
  /\ (moved /\ bpc'[h] = "unreacting") => bpc[h] = "asking"
  /\ (moved /\ bpc[h] = "unreacting") =>
       /\ eyes'[h] \in {"removed", "stuck", "never_added"}
       /\ bpc'[h] \in {"saying_answer", "saying_sorry"}
  /\ (moved /\ bpc'[h] \in {"saying_answer", "saying_sorry"}) => bpc[h] = "unreacting"
  /\ ~moved => eyes'[h] = eyes[h]

\* C31: a handler with a non-empty question moves from the reaction to the
\* population of an empty cache, to the LLM call, to the removal of the
\* reaction and to the reply, in this order; it moves on from the reaction
\* calls whether they succeeded or failed, and from the LLM call to the
\* removal whatever the call returned.
C31_StepOrder == [][\A h \in Mentions : OrderStep(h)]_vars

\* the reaction could not be added, the LLM gave no answer, the removal was
\* attempted all the same and the apology is being sent
C31_Witness ==
  \E h \in Mentions :
    /\ bpc[h] = "saying_sorry"
    /\ eyes[h] = "never_added"


(* --------------------- failed populations of the cache ----------------- *)
\* the step in which collectRecentData of caller p catches the failure or
\* the timeout of the child process
BotCollectFailure(p) ==
  /\ bpc[p] = "collecting"
  /\ bpc'[p] # "collecting"
  /\ ~(pc = "exited" /\ exitCode = 0)

\* the three cache values as they are after the step and before it
CacheKept ==
  /\ lastSummary' = lastSummary
  /\ lastRawData' = lastRawData
  /\ lastLinearData' = lastLinearData

\* the handler that goes on to the LLM call builds its prompt from cache
\* values s, r, l
PromptFrom(p, s, r, l) ==
  (p \in Mentions /\ bpc'[p] = "asking") => botPrompt'[p] = BotPrompt(s, r, l, question[p])

\* C32: in the step in which a population fails (the child process exits
\* non-zero or is killed at its timeout, or the Linear fetch throws) the
\* three cache values stay what they were, and a handler that continues
\* works with these previous values.
C32_FailureKeepsCache ==
  [][\A p \in Procs :
       (BotCollectFailure(p) \/ BotLinearFailure(p)) =>
         /\ CacheKept
         /\ PromptFrom(p, lastSummary, lastRawData, lastLinearData)]_vars

\* a collection failed while the cache held Linear activity
C32_Witness ==
  /\ lastLinearData # <<>>
  /\ lastRawData = <<>>
  /\ botLog # <<>>
  /\ botLog[1] \in {"Data collection error: ETIMEDOUT", "Data collection error: Command failed"}


NoWebhook == ~webhookOk \/ placeholder

\* C34: a live git-summary.js or linear-summary.js run without a usable
\* webhook has, once past its first step, exited with code 1 with no source
\* queried, no capability invoked and no POST made; a dry run never stops
\* for its webhook.
C34_WebhookGuard ==
  (script \in {"git", "linear"} /\ pc # "main") =>
    /\ (~dryRun /\ NoWebhook) =>
         /\ pc = "exited" /\ exitCode = 1
         /\ listed = {} /\ failed = {} /\ missed = {}
         /\ stage1 = "none" /\ stage2 = "none"
         /\ posts = 0
    /\ dryRun =>
         /\ "ERROR: slackWebhookUrl not configured" \notin Range(output)
         /\ "ERROR: linearSlackWebhookUrl not set in config.json" \notin Range(output)


(* ------------------------ seenSHAs and the commits --------------------- *)
\* the SHAs a repository of the run listed
ShaRepos(s) == {l.repo : l \in {x \in ListedOf("commit") : x.rec.sha = s}}

\* C35: at every point of the scan every SHA of seenSHAs has exactly one
\* commit in data.commits, every commit of data.commits has its SHA in
\* seenSHAs, and the two have the same size: no SHA occurs twice, whichever
\* repositories and branches listed it.
C35_SeenIsCollected ==
  /\ \A s \in seenSHAs : Cardinality(CommitsWithSha(s)) = 1
  /\ \A i \in DOMAIN data.commits : \E s \in seenSHAs : i \in CommitsWithSha(s)
  /\ Len(data.commits) = Cardinality(seenSHAs)

\* two repositories of the run listed the same SHA and the scan goes on
C35_Witness ==
  /\ pc \notin {"repos", "collected"}
  /\ \E s \in seenSHAs :
       /\ Cardinality(ShaRepos(s)) >= 2
       /\ Cardinality(CommitsWithSha(s)) = 1


(* --------------------- repositories without branches ------------------- *)
\* the repositories the scan left at `continue` (git-summary.js:75-78)
SkippedRepos ==
  {r \in Range(allRepos) :
     ("  No branches in " \o FullName(r) \o ", skipping") \in Range(output)}

\* no listing of repository r returned a record or failed, apart from its
\* branch listing
NothingFetched(r) ==
  /\ \A l \in listed : l.repo # r
  /\ \A f \in failed : f.repo = r => f.listing = "branches"

\* the organisation events of the window that name repository r and that the
\* snapshot holds as branch or membership events
OrgEventsNaming(r) ==
  {l \in ListedOf("event") :
     /\ l.rec.repo = r
     /\ ~EventSkipped(l.rec, since)
     /\ (IsBranchEvent(l.rec) \/ l.rec.type = "MemberEvent")}

\* the step that leaves a repository without branches goes to the next
\* repository (or to the organisation events) with the snapshot unchanged
SkipStep ==
  (pc = "branches" /\ allRepos[ri] \in SkippedRepos' /\ allRepos[ri] \notin SkippedRepos)
    => /\ ri' = ri + 1
       /\ pc' \in {"branches", "events"}
       /\ data' = data

\* C36: a repository whose branch listing was empty or failed has none of its
\* pull requests, reviews, comments, issues and releases fetched, and no event
\* of any kind about it is in the snapshot.
C36_SkippedContributesNothing ==
  \A r \in SkippedRepos : NothingFetched(r) /\ OrgEventsNaming(r) = {}

\* C36, without the organisation events: a repository whose branch listing
\* was empty or failed has none of its own listings fetched (commits, pull
\* requests, reviews, comments, issues, releases); the scan goes straight to
\* the next repository.
C36_SkippedNotFetched ==
  /\ [](\A r \in SkippedRepos : NothingFetched(r))
  /\ [][SkipStep]_vars

\* the scan returned after it skipped one repository and collected from another
C36_Witness ==
  /\ pc = "collected"
  /\ \E r \in SkippedRepos : [repo |-> r, listing |-> "branches"] \in failed
  /\ \E r \in SkippedRepos : [repo |-> r, listing |-> "branches"] \notin failed
  /\ \E l \in listed : l.kind # "event" /\ l.repo \in Range(allRepos) \ SkippedRepos


(* ------------------- categorisation of a Linear reply ------------------ *)
\* the issue nodes of the reply
ReplyIssues == {l.rec : l \in ListedOf("ticket")}

\* the comment nodes of the reply, each with its issue
ReplyComments == UNION {{<<i, j>> : j \in DOMAIN i.comments} : i \in ReplyIssues}

NodeOf(p) == p[1].comments[p[2]]

\* a body of at most 500 characters, or its first 500 characters and "..."
CutBody(b) == IF Len(b) <= 500 THEN b ELSE [k \in 1..501 |-> IF k = 501 THEN "..." ELSE b[k]]

\* the returned comment c was made from the comment node p
MadeFrom(c, p) ==
  /\ c.issue = p[1].identifier
  /\ c.createdAt = NodeOf(p).createdAt
  /\ c.body = CutBody(NodeOf(p).body)

Occurrences(seq, x) == Cardinality({k \in DOMAIN seq : seq[k] = x})

IssuesPartitioned ==
  \A i \in ReplyIssues :
    /\ Occurrences(linearData.newIssues, i) + Occurrences(linearData.activeIssues, i) = 1
    /\ Occurrences(linearData.newIssues, i) = 1 <=> TimeOf(i.createdAt) >= TimeOf(since)

LatestComments ==
  LET kept == linearData.recentComments
      total == Cardinality(ReplyComments)
  IN  /\ Len(kept) = IF total > 20 THEN 20 ELSE total
      /\ \A a, b \in DOMAIN kept : a < b => TimeOf(kept[a].createdAt) >= TimeOf(kept[b].createdAt)
      /\ \A k \in DOMAIN kept :
           /\ \E p \in ReplyComments : MadeFrom(kept[k], p)
           /\ Occurrences(kept, kept[k]) <= Cardinality({p \in ReplyComments : MadeFrom(kept[k], p)})
           /\ Len(kept[k].body) <= 501
      \* a comment later than a returned one is returned
      /\ \A k \in DOMAIN kept :
           LET later(t) == TimeOf(t) > TimeOf(kept[k].createdAt)
           IN  Cardinality({p \in ReplyComments : later(NodeOf(p).createdAt)})
                 = Cardinality({a \in DOMAIN kept : later(kept[a].createdAt)})

\* C37: fetchLinearActivity puts every returned issue in exactly one of
\* newIssues (createdAt >= since) and activeIssues (otherwise), and returns at
\* most 20 comments: those with the latest createdAt across all issues, in
\* descending createdAt order, each body cut to 500 characters plus "...".
C37_Categorised ==
  pc = "categorized" =>
    /\ Len(linearData.newIssues) + Len(linearData.activeIssues) = Cardinality(ReplyIssues)
    /\ IssuesPartitioned
    /\ LatestComments

\* a reply of two issues with more than 20 comments, one body above the cap
\* and one at it, and one issue on each side of since
C37_Witness ==
  /\ pc = "categorized"
  /\ Cardinality(ReplyComments) > 20
  /\ Len(linearData.recentComments) = 20
  /\ Len(linearData.newIssues) = 1 /\ Len(linearData.activeIssues) = 1
  /\ \E k \in DOMAIN linearData.recentComments :
       /\ Len(linearData.recentComments[k].body) = 501
       /\ linearData.recentComments[k].body[501] = "..."
  /\ \E k \in DOMAIN linearData.recentComments : Len(linearData.recentComments[k].body) = 500


(* ------------------ failures of the context sources -------------------- *)
LinearFailureLogged ==
  \E reply \in LinearFailures : ("Linear error (non-fatal): " \o reply.kind) \in Range(output)

NotionFailureLogged == "Notion error (non-fatal): Notion API error" \in Range(output)

PageFailureLogged(title) == ("  Error for \"" \o title \o "\" (non-fatal)") \in Range(output)

PageStarted(title) == ("  Summarizing: " \o title) \in Range(output)

\* the generated section notes each failure, and the sources and pages after
\* a failure were processed
FailuresNoted ==
  /\ LinearFailureLogged =>
       /\ \E reply \in LinearFailures :
            Contains(generatedParts,
              <<"## Active Tickets (Linear)", "", "_Failed to fetch: " \o reply.kind \o "_", "">>)
       /\ NotionLog \in Range(output)
       /\ notionCfg /\ pc # "ctx_notion" =>
            \/ NotionFailureLogged
            \/ \E k \in 0..2 : ("Found " \o ToString(k) \o " recently edited specs") \in Range(output)
  /\ NotionFailureLogged =>
       Contains(generatedParts,
         <<"## Recent Specs (Notion)", "", "_Failed to fetch: Notion API error_", "">>)
  /\ \A title \in {"Spec A", "Spec B"} :
       /\ PageFailureLogged(title) =>
            \/ Contains(generatedParts, <<"### " \o title, "", "Long text of the page">>)
            \/ Contains(generatedParts, <<"### " \o title, "", "_Could not fetch content._">>)
       /\ PageStarted(title) => ("### " \o title) \in Range(generatedParts)
  /\ PageFailureLogged("Spec A") /\ "Found 2 recently edited specs" \in Range(output) =>
       PageStarted("Spec B")

\* the run ended: only the write of context.md can have ended it with code 1;
\* otherwise the final content was printed (dry run) or is what the file holds
EndedByWriting ==
  /\ exitCode = 1 => output[Len(output)] = "ERROR: EACCES: permission denied"
  /\ exitCode = 0 =>
       /\ dryRun => Contains(output, <<"", MARKER, "">> \o generatedParts \o <<"---">>)
       /\ ~dryRun =>
            /\ output[Len(output)] = "Updated context.md"
            /\ contextFile = LinesOf(TrimEnd(BeforeMarker(contextFile)))
                               \o <<"", MARKER, "">> \o generatedParts

\* C38: in build-context.js a failure of the Linear fetch, of the Notion query
\* or of one page's summarization does not end the run: the generated section
\* gets a note of the failure (or the fallback excerpt of the page), the
\* Notion step and the remaining pages are still processed, and the run ends
\* by writing context.md with the static section, the marker and that
\* generated section (by printing it in a dry run).
C38_FailuresNonFatal ==
  (script = "context" /\ pc \in {"ctx_notion", "ctx_write", "exited"}) =>
    /\ FailuresNoted
    /\ pc = "exited" => EndedByWriting

\* a live run wrote context.md after the Linear fetch failed and page A could
\* not be summarized, with page B summarized after it
C38_Witness ==
  /\ script = "context" /\ pc = "exited" /\ exitCode = 0 /\ ~dryRun
  /\ LinearFailureLogged
  /\ PageFailureLogged("Spec A")
  /\ ~PageFailureLogged("Spec B")
  /\ Contains(contextFile, <<"### Spec B", "", "- what it does">>)
  /\ Contains(contextFile, <<"# Project", "", MARKER>>)
  /\ \E reply \in LinearFailures :
       Contains(contextFile, <<"_Failed to fetch: " \o reply.kind \o "_">>)


(* ------------------- the report read back by the bot ------------------- *)
\* C39: a successful collectRecentData sets lastSummary to the summary text
\* that git-summary.js --dry-run printed between its two "---" lines, trimmed,
\* whatever lines that summary holds.
C39_RoundTrip ==
  [][ \A p \in Procs : PopulationSucceeds(p) => lastSummary' = Trim(summary) ]_vars

====
